---- MODULE Spec2Model ----
(***************************************************************************)
(* SecLyzer: the Decision Engine (hysteretic trust-state machine) and the  *)
(* Locking Engine (system actions), connected by the state_change channel. *)
(* Scores are integers standing for the float confidence scores 0..100.    *)
(***************************************************************************)
EXTENDS Integers, Sequences, FiniteSets, TLC

(* ---------------- bounds of the model ---------------- *)
MaxConfirm == 2
MaxCalls == 3
MaxInbox == 2
MaxSaves == 3
MaxArtifacts == 2
MaxPending == 1
MaxFeatures == 3
MaxWindow == 10
MaxMouse == 51
MaxRare == 2
MaxScored == 11
MaxRetry == 3
MaxNow == 70

(* ---------------- AuthState (decision_engine.py:27-33) ---------------- *)
NORMAL == "normal"
MONITORING == "monitoring"
RESTRICTED == "restricted"
LOCKDOWN == "lockdown"

AuthState == {NORMAL, MONITORING, RESTRICTED, LOCKDOWN}

\* AuthState.value is a str; Python orders str values lexicographically.
\* The four values differ in their first character, so the code point of
\* the first character (l=108, m=109, n=110, r=114) decides every comparison.
FirstChar == [s \in AuthState |->
                 CASE s = LOCKDOWN -> 108
                   [] s = MONITORING -> 109
                   [] s = NORMAL -> 110
                   [] s = RESTRICTED -> 114]

\* the comparison made on the trust order lockdown < restricted < monitoring
\* < normal instead of on the value strings
ValueLess_by_trust(a, b) ==
    LET rank == [s \in AuthState |->
                   CASE s = LOCKDOWN -> 0
                     [] s = RESTRICTED -> 1
                     [] s = MONITORING -> 2
                     [] s = NORMAL -> 3]
    IN rank[a] < rank[b]

\* target_state.value < self.current_state.value
ValueLess(a, b) == FirstChar[a] < FirstChar[b]

\* constructor defaults of DecisionEngine
DefaultNormal == 70
DefaultMonitoring == 50
DefaultRestricted == 35

\* scores fed to process_score: one per band, each on its lower boundary
Scores == {30, 35, 50, 70}

VARIABLES
    normal_threshold, monitoring_threshold, restricted_threshold,
    confirmation_count,
    current_state, previous_state,
    score_history, low_score_count,
    db_available,          \* self.db is not None
    de_calls,              \* number of process_score calls made so far
    dev_authority,         \* what DeveloperMode.is_active() reports
    de_call,               \* what the last Decision Engine operation did
    le_subscribed,         \* the Locking Engine's run() has subscribed to state_change
    le_inbox,              \* state_change messages delivered to it and not yet handled
    enable_lock, enable_notifications, lock_on_restricted, lock_on_lockdown,
    le_enabled,            \* LockingEngine._enabled
    le_call,               \* what the last Locking Engine operation did
    ex_stored,             \* points written to the time-series store, per measurement
    ex_channel,            \* messages published, per features channel
    ex_saves,              \* number of save steps made so far
    ex_call,               \* what the last extractor save step did
    ie_attr,               \* InferenceEngine attribute -> artifact version held (0: None)
    ie_disk,               \* modality -> latest artifact version in models_dir
    ie_lock,               \* InferenceEngine._lock is held
    rl_pc,                 \* position of the reload_models() thread (0: not running)
    rl_data,               \* artifact version in the loader's local model_data
    sc_mod,                \* modality the scoring thread is scoring ("none": idle)
    sc_seen,               \* artifact versions the scoring call has read so far
    ie_call,               \* what the last completed scoring call used
    dm_phase,              \* SecLyzerDaemon: "new", "starting", "up", "stopping", "stopped"
    dm_next,               \* index of the next worker start() starts / stop() stops
    dm_half,               \* stop() of that worker has set the flag, not yet unsubscribed
    wk_pc,                 \* worker -> position of its thread
    wk_running,            \* worker -> its engine's _running flag
    wk_sub,                \* worker -> its pubsub holds a subscription
    wk_stopped,            \* worker -> stop() has been called on its engine
    wk_pending,            \* worker -> messages delivered to its pubsub, not yet read
    wk_late,               \* worker -> it handled a message after stop() was called
    ps_pc,                 \* position of the process_score call in flight ("idle": none)
    ps_score,              \* its score argument
    ps_target,             \* its target_state local
    de_quiet,              \* the engine's values at each instant between two calls so far
    gs_pc,                 \* number of attributes the get_status call in flight has read
    gs_seen,               \* what it has read
    gs_call,               \* the status the last get_status call returned
    ie_scores,             \* modality -> InferenceEngine.<modality>_scores, in 1/1000 points
    if_msgs,               \* number of feature messages the inference loop has handled
    if_call,               \* what the last handled feature message published
    ks_events,             \* KeystrokeExtractor.events, timestamps in milliseconds
    ks_call,               \* what the last handled keystroke event did
    ms_window,             \* MouseExtractor: event kind -> number of recent events of that kind
    ms_call,               \* what the last handled mouse event did
    dv_config,             \* DeveloperMode.config, as _load_config returned it
    dv,                    \* DeveloperMode: active, activation_time, activation_method
    dv_env,                \* the clock (minutes), the magic file, the environment variable
    dv_call                \* what the last DeveloperMode operation did

deVars == <<normal_threshold, monitoring_threshold, restricted_threshold,
            confirmation_count, current_state, previous_state,
            score_history, low_score_count, db_available, de_calls,
            de_call>>
leVars == <<enable_lock, enable_notifications, lock_on_restricted,
            lock_on_lockdown, le_enabled, le_subscribed, le_call>>
coreVars == <<deVars, dev_authority, le_inbox, leVars>>
exVars == <<ex_stored, ex_channel, ex_saves, ex_call>>
ieVars == <<ie_attr, ie_disk, ie_lock, rl_pc, rl_data, sc_mod, sc_seen, ie_call>>
dmVars == <<dm_phase, dm_next, dm_half, wk_pc, wk_running, wk_sub, wk_stopped,
            wk_pending, wk_late>>
stVars == <<ps_pc, ps_score, ps_target, de_quiet, gs_pc, gs_seen, gs_call>>
fuVars == <<ie_scores, if_msgs, if_call>>
ksVars == <<ks_events, ks_call>>
msVars == <<ms_window, ms_call>>
dvVars == <<dv_config, dv, dv_env, dv_call>>
restVars == <<exVars, ieVars, dmVars, stVars, fuVars, ksVars, msVars, dvVars>>
vars == <<coreVars, restVars>>

(* ======================= Decision Engine ======================= *)

\* deque(maxlen=m).append(x): the oldest entry is dropped when full
\* a deque that never evicts
DequeAppend_unbounded(h, x, m) ==
    IF m = 0 THEN <<>> ELSE Append(h, x)

DequeAppend(h, x, m) ==
    IF m = 0 THEN <<>>
    ELSE IF Len(h) >= m THEN Append(Tail(h), x)
    ELSE Append(h, x)

\* determine_state with the monitoring band exclusive at its lower bound
determine_state_exclusive(score) ==
    IF score >= normal_threshold THEN NORMAL
    ELSE IF score > monitoring_threshold THEN MONITORING
    ELSE IF score >= restricted_threshold THEN RESTRICTED
    ELSE LOCKDOWN

determine_state(score) ==
    IF score >= normal_threshold THEN NORMAL
    ELSE IF score >= monitoring_threshold THEN MONITORING
    ELSE IF score >= restricted_threshold THEN RESTRICTED
    ELSE LOCKDOWN

_get_action_for_state(state) ==
    CASE state = NORMAL -> "allow"
      [] state = MONITORING -> "allow_log"
      [] state = RESTRICTED -> "restrict"
      [] state = LOCKDOWN -> "lockdown"
      [] OTHER -> "allow"

_get_reason(state) ==
    CASE state = NORMAL -> "High confidence - normal operation"
      [] state = MONITORING -> "Medium confidence - monitoring active"
      [] state = RESTRICTED -> "Low confidence - restricted access"
      [] state = LOCKDOWN -> "Very low confidence - lockdown initiated"
      [] OTHER -> "Score"

\* the dictionary returned by the developer-mode bypass
BypassDecision ==
    [action |-> "allow", state |-> NORMAL, score |-> 100,
     reason |-> "Developer mode active (BYPASS)", dev_mode |-> TRUE]

\* the counter stopping at confirmation_count
NextLowCount_capped(target) ==
    IF target \in {RESTRICTED, LOCKDOWN}
    THEN IF low_score_count < confirmation_count
         THEN low_score_count + 1 ELSE confirmation_count
    ELSE 0

\* low_score_count after the "track consecutive low scores" step
NextLowCount(target) ==
    IF target \in {RESTRICTED, LOCKDOWN} THEN low_score_count + 1 ELSE 0

\* should_change with the confirmation test off by one (> instead of >=)
ShouldChange_late(target, low) ==
    IF ValueLess(target, current_state) THEN low > confirmation_count
    ELSE IF ValueLess(current_state, target) THEN TRUE
    ELSE FALSE

\* should_change, computed on the updated counter
ShouldChange(target, low) ==
    IF ValueLess(target, current_state) THEN low >= confirmation_count
    ELSE IF ValueLess(current_state, target) THEN TRUE
    ELSE FALSE

\* the event with old_state and new_state exchanged
StateChangeEvent_swapped(old, new, score) ==
    [old_state |-> new, new_state |-> old, score |-> score]

\* the event _publish_state_change puts on seclyzer:state_change
StateChangeEvent(old, new, score) ==
    [old_state |-> old, new_state |-> new, score |-> score]

\* the result built from the target of the score instead of the state passed in
BuildResult_target(state, score, low) ==
    [action |-> _get_action_for_state(determine_state(score)),
     state |-> determine_state(score), score |-> score,
     reason |-> _get_reason(determine_state(score)), dev_mode |-> FALSE,
     low_score_count |-> low,
     confirmation_needed |-> IF low < confirmation_count
                             THEN confirmation_count - low ELSE 0]

\* the result dictionary process_score builds
BuildResult(state, score, low) ==
    [action |-> _get_action_for_state(state), state |-> state, score |-> score,
     reason |-> _get_reason(state), dev_mode |-> FALSE,
     low_score_count |-> low,
     confirmation_needed |-> IF low < confirmation_count
                             THEN confirmation_count - low ELSE 0]

\* _log_decision: one DECISION audit record, swallowed when the write fails
LogDecision(result, db_ok) ==
    IF db_available /\ db_ok
    THEN <<[event_type |-> "DECISION", state |-> result.state,
            details |-> result.action]>>
    ELSE <<>>

NoCall == [op |-> "none"]

\* the bypass test looking at the dev_mode argument only
Bypass_argument_only(dev) == dev

\* the bypass test: dev_mode or (self.dev_mode and self.dev_mode.is_active())
Bypass(dev) == dev \/ dev_authority

DeFrame == UNCHANGED <<normal_threshold, monitoring_threshold,
                       restricted_threshold, confirmation_count, db_available,
                       restVars>>

\* process_score publishing the event before it assigns the state, so that a
\* failing publish leaves the engine where it was
ProcessScore_publish_first(score, dev, pub_ok, db_ok) ==
    LET bypass == Bypass(dev)
        target == determine_state(score)
        low    == NextLowCount(target)
        change == ShouldChange(target, low) /\ target # current_state
        newcur == IF change /\ pub_ok THEN target ELSE current_state
        newprev == IF change /\ pub_ok THEN current_state ELSE previous_state
        event  == StateChangeEvent(current_state, target, score)
        raised == change /\ ~pub_ok
        delivered == change /\ pub_ok /\ le_subscribed
        result == BuildResult(newcur, score, low)
        pre    == [op |-> "process_score", score |-> score, dev_param |-> dev]
    IN
    /\ de_calls < MaxCalls
    /\ de_calls' = de_calls + 1
    /\ score_history' = DequeAppend(score_history, score, confirmation_count * 2)
    /\ DeFrame
    /\ UNCHANGED <<dev_authority, leVars>>
    /\ IF bypass
       THEN /\ UNCHANGED <<current_state, previous_state, low_score_count, le_inbox>>
            /\ de_call' = pre @@ [bypass |-> TRUE, target |-> "none",
                                  published |-> <<>>, notified |-> FALSE,
                                  audit |-> <<>>, raised |-> FALSE,
                                  decision |-> <<BypassDecision>>]
       ELSE /\ low_score_count' = low
            /\ current_state' = newcur
            /\ previous_state' = newprev
            /\ IF delivered
               THEN /\ Len(le_inbox) < MaxInbox
                    /\ le_inbox' = Append(le_inbox, event)
               ELSE UNCHANGED le_inbox
            /\ de_call' = pre @@ [bypass |-> FALSE, target |-> target,
                                  published |-> IF change /\ pub_ok
                                                THEN <<event>> ELSE <<>>,
                                  notified |-> change,
                                  audit |-> IF raised THEN <<>>
                                            ELSE LogDecision(result, db_ok),
                                  raised |-> raised,
                                  decision |-> IF raised THEN <<>> ELSE <<result>>]

\* process_score(score, dev_mode); pub_ok: redis publish succeeds,
\* db_ok: the audit write succeeds
ProcessScore(score, dev, pub_ok, db_ok) ==
    LET bypass == Bypass(dev)
        target == determine_state(score)
        low    == NextLowCount(target)
        change == ShouldChange(target, low) /\ target # current_state
        newcur == IF change THEN target ELSE current_state
        newprev == IF change THEN current_state ELSE previous_state
        event  == StateChangeEvent(current_state, target, score)
        raised == change /\ ~pub_ok
        \* _on_state_change runs the registered callbacks (their exceptions are
        \* caught) and then publishes the event
        delivered == change /\ pub_ok /\ le_subscribed
        result == BuildResult(newcur, score, low)
        pre    == [op |-> "process_score", score |-> score, dev_param |-> dev]
    IN
    /\ de_calls < MaxCalls
    /\ de_calls' = de_calls + 1
    /\ score_history' = DequeAppend(score_history, score, confirmation_count * 2)
    /\ DeFrame
    /\ UNCHANGED <<dev_authority, leVars>>
    /\ IF bypass
       THEN /\ UNCHANGED <<current_state, previous_state, low_score_count, le_inbox>>
            /\ de_call' = pre @@ [bypass |-> TRUE, target |-> "none",
                                  published |-> <<>>, notified |-> FALSE,
                                  audit |-> <<>>, raised |-> FALSE,
                                  decision |-> <<BypassDecision>>]
       ELSE /\ low_score_count' = low
            /\ current_state' = newcur
            /\ previous_state' = newprev
            /\ IF delivered
               THEN /\ Len(le_inbox) < MaxInbox
                    /\ le_inbox' = Append(le_inbox, event)
               ELSE UNCHANGED le_inbox
            /\ de_call' = pre @@ [bypass |-> FALSE, target |-> target,
                                  published |-> IF change /\ pub_ok
                                                THEN <<event>> ELSE <<>>,
                                  notified |-> change,
                                  audit |-> IF raised THEN <<>>
                                            ELSE LogDecision(result, db_ok),
                                  raised |-> raised,
                                  decision |-> IF raised THEN <<>> ELSE <<result>>]

\* force_state announcing the forced state like a change made by process_score
ForceState_publishes(state, reason, db_ok) ==
    LET event == StateChangeEvent(current_state, state, 0) IN
    /\ current_state' = state
    /\ previous_state' = current_state
    /\ IF le_subscribed
       THEN /\ Len(le_inbox) < MaxInbox
            /\ le_inbox' = Append(le_inbox, event)
       ELSE UNCHANGED le_inbox
    /\ UNCHANGED <<score_history, low_score_count, de_calls,
                   dev_authority, leVars>>
    /\ DeFrame
    /\ de_call' = [op |-> "force_state", old_state |-> current_state,
                   bypass |-> FALSE, target |-> state,
                   published |-> <<event>>, notified |-> TRUE,
                   audit |-> IF db_available /\ db_ok
                             THEN <<[event_type |-> "STATE_OVERRIDE",
                                     state |-> state, details |-> reason]>>
                             ELSE <<>>,
                   raised |-> db_available /\ ~db_ok,
                   decision |-> <<>>]

\* force_state that also resets the confirmation counter
ForceState_resets_counter(state, reason, db_ok) ==
    /\ current_state' = state
    /\ previous_state' = current_state
    /\ low_score_count' = 0
    /\ UNCHANGED <<score_history, de_calls, le_inbox, dev_authority, leVars>>
    /\ DeFrame
    /\ de_call' = [op |-> "force_state", old_state |-> current_state,
                   bypass |-> FALSE, target |-> state,
                   published |-> <<>>, notified |-> FALSE,
                   audit |-> IF db_available /\ db_ok
                             THEN <<[event_type |-> "STATE_OVERRIDE",
                                     state |-> state, details |-> reason]>>
                             ELSE <<>>,
                   raised |-> db_available /\ ~db_ok,
                   decision |-> <<>>]

\* force_state(state, reason); db_ok: the audit write succeeds (it is not
\* caught here, so a failing write raises after the state was replaced)
ForceState(state, reason, db_ok) ==
    /\ current_state' = state
    /\ previous_state' = current_state
    /\ UNCHANGED <<score_history, low_score_count, de_calls, le_inbox,
                   dev_authority, leVars>>
    /\ DeFrame
    /\ de_call' = [op |-> "force_state", old_state |-> current_state,
                   bypass |-> FALSE, target |-> state,
                   published |-> <<>>, notified |-> FALSE,
                   audit |-> IF db_available /\ db_ok
                             THEN <<[event_type |-> "STATE_OVERRIDE",
                                     state |-> state, details |-> reason]>>
                             ELSE <<>>,
                   raised |-> db_available /\ ~db_ok,
                   decision |-> <<>>]

\* a call of determine_state(score) on its own
DetermineState(score) ==
    /\ de_call' = [op |-> "determine_state", score |-> score,
                   target |-> determine_state(score)]
    /\ UNCHANGED <<normal_threshold, monitoring_threshold, restricted_threshold,
                   confirmation_count, current_state, previous_state,
                   score_history, low_score_count, db_available, de_calls,
                   dev_authority, le_inbox, leVars, restVars>>

\* the developer-mode authority switches on or off (DeveloperMode.is_active)
SetDevMode(b) ==
    /\ dev_authority # b
    /\ dev_authority' = b
    /\ UNCHANGED <<deVars, le_inbox, leVars, restVars>>

\* the messages the process_scores loop tells apart on scores:fused: data
\* that json.loads rejects, an object whose fused_score is not a number,
\* and an object with a numeric fused_score (or none: 50.0 is assumed)
ScoreMessages == {"undecodable", "bad_score", "well_formed"}

\* stands in score_history for a fused_score that is not a number
NotANumber == 0 - 1

\* the process_scores loop receives the fused message the Inference Engine
\* published last: score = data.get("fused_score", 50.0), dev_mode =
\* data.get("dev_mode", False), then process_score.  Scores are whole
\* points here and thousandths there; the thresholds are whole, so
\* rounding down keeps every comparison.
DecideOnFused(pub_ok, db_ok) ==
    /\ if_call.op = "process_features"
    /\ if_call.fused # <<>>
    /\ ProcessScore(if_call.fused[1].fused_score \div 1000,
                    if_call.fused[1].dev_mode, pub_ok, db_ok)

\* one iteration of the process_scores loop: json.loads, process_score,
\* publish of the decision on seclyzer:decisions; both except clauses log
\* and go on to the next message. pub_ok: redis publishes succeed while
\* the message is handled, db_ok: the audit write succeeds
ProcessScoresMessage(msg, score, dev, pub_ok, db_ok) ==
    LET value  == IF msg = "bad_score" THEN NotANumber ELSE score
        bypass == Bypass(dev)
        \* determine_state compares the score with the thresholds
        type_error == msg = "bad_score" /\ ~bypass
        target == determine_state(score)
        low    == NextLowCount(target)
        change == ShouldChange(target, low) /\ target # current_state
        newcur == IF change THEN target ELSE current_state
        newprev == IF change THEN current_state ELSE previous_state
        event  == StateChangeEvent(current_state, target, score)
        event_raised == change /\ ~pub_ok
        result == BuildResult(newcur, score, low)
        returned == IF bypass THEN <<BypassDecision>>
                    ELSE IF type_error \/ event_raised THEN <<>>
                    ELSE <<result>>
        sent   == IF pub_ok THEN returned ELSE <<>>
    IN
    /\ de_calls < MaxCalls
    /\ de_calls' = de_calls + 1
    /\ DeFrame
    /\ UNCHANGED <<dev_authority, leVars>>
    /\ IF msg = "undecodable"
       THEN /\ UNCHANGED <<score_history, current_state, previous_state,
                           low_score_count, le_inbox>>
            /\ de_call' = [op |-> "process_scores", msg |-> msg, bypass |-> FALSE,
                           failed |-> TRUE, sent |-> <<>>, audit |-> <<>>,
                           loop_alive |-> TRUE]
       ELSE /\ score_history' = DequeAppend(score_history, value, confirmation_count * 2)
            /\ IF bypass \/ type_error
               THEN UNCHANGED <<current_state, previous_state, low_score_count, le_inbox>>
               ELSE /\ low_score_count' = low
                    /\ current_state' = newcur
                    /\ previous_state' = newprev
                    /\ IF change /\ pub_ok /\ le_subscribed
                       THEN /\ Len(le_inbox) < MaxInbox
                            /\ le_inbox' = Append(le_inbox, event)
                       ELSE UNCHANGED le_inbox
            /\ de_call' = [op |-> "process_scores", msg |-> msg, bypass |-> bypass,
                           failed |-> sent = <<>>, sent |-> sent,
                           audit |-> IF bypass \/ type_error \/ event_raised THEN <<>>
                                     ELSE LogDecision(result, db_ok),
                           loop_alive |-> TRUE]

(* ======================= Locking Engine ======================= *)

\* how an external command (subprocess.run with timeout=5) can end
CmdOutcomes == {"ok", "nonzero", "timeout", "error"}

\* subprocess.run returned (whatever the exit status) rather than raised
Returned(out) == out \in {"ok", "nonzero"}

NoEffect == [commands |-> <<>>, observed |-> <<>>, ret |-> FALSE]

\* lock_screen(): the commands run, the ("lock", {success}) reports made to
\* the action callbacks, and the return value
lock_screen(lock_out) ==
    IF ~enable_lock \/ ~le_enabled THEN NoEffect
    ELSE IF dev_authority THEN NoEffect
    ELSE [commands |-> <<"lock">>,
          observed |-> <<[action |-> "lock", success |-> Returned(lock_out)]>>,
          ret |-> Returned(lock_out)]

\* send_notification that does not look at the engine's _enabled flag
send_notification_ignores_enabled(urgency, notify_out) ==
    IF ~enable_notifications THEN NoEffect
    ELSE [commands |-> <<"notify-send">>, observed |-> <<>>,
          ret |-> Returned(notify_out)]

\* send_notification(title, message, urgency)
send_notification(urgency, notify_out) ==
    IF ~enable_notifications \/ ~le_enabled THEN NoEffect
    ELSE [commands |-> <<"notify-send">>, observed |-> <<>>,
          ret |-> Returned(notify_out)]

\* what a _handle_* method does: the calls it makes and their effects
Handled(locks, urgency, lock_out, notify_out) ==
    LET l == IF locks THEN lock_screen(lock_out) ELSE NoEffect
        n == send_notification(urgency, notify_out)
    IN [lock_calls |-> IF locks THEN 1 ELSE 0,
        notify_calls |-> <<urgency>>,
        commands |-> l.commands \o n.commands,
        observed |-> l.observed \o n.observed]

NotHandled == [lock_calls |-> 0, notify_calls |-> <<>>,
               commands |-> <<>>, observed |-> <<>>]

_handle_lockdown(lock_out, notify_out) ==
    Handled(lock_on_lockdown, "critical", lock_out, notify_out)

\* _handle_restricted consulting the lockdown switch
_handle_restricted_lockdown_flag(lock_out, notify_out) ==
    Handled(lock_on_lockdown, "normal", lock_out, notify_out)

_handle_restricted(lock_out, notify_out) ==
    Handled(lock_on_restricted, "normal", lock_out, notify_out)

_handle_monitoring(notify_out) == Handled(FALSE, "low", "ok", notify_out)

_handle_restored(notify_out) == Handled(FALSE, "low", "ok", notify_out)

handle_state_change(old_state, new_state, lock_out, notify_out) ==
    IF ~le_enabled THEN NotHandled
    ELSE IF dev_authority THEN NotHandled
    ELSE IF new_state = LOCKDOWN THEN _handle_lockdown(lock_out, notify_out)
    ELSE IF new_state = RESTRICTED THEN _handle_restricted(lock_out, notify_out)
    ELSE IF new_state = MONITORING THEN _handle_monitoring(notify_out)
    ELSE IF new_state = NORMAL /\ old_state # NORMAL THEN _handle_restored(notify_out)
    ELSE NotHandled

LeFrame == UNCHANGED <<enable_lock, enable_notifications, lock_on_restricted,
                       lock_on_lockdown, le_subscribed, restVars>>

LeCall(op, old, new, eff) ==
    [op |-> op, old_state |-> old, new_state |-> new,
     pre_enabled |-> le_enabled, pre_dev |-> dev_authority] @@ eff

\* a direct call of handle_state_change(old_state, new_state, score)
HandleStateChange(old, new, lock_out, notify_out) ==
    /\ le_call' = LeCall("handle_state_change", old, new,
                         handle_state_change(old, new, lock_out, notify_out))
    /\ LeFrame
    /\ UNCHANGED <<deVars, dev_authority, le_inbox, le_enabled>>

\* one iteration of run(): the next state_change message is decoded and handled
LockingOnMessage(lock_out, notify_out) ==
    /\ le_subscribed
    /\ le_inbox # <<>>
    /\ le_inbox' = Tail(le_inbox)
    /\ le_call' = LeCall("run", Head(le_inbox).old_state, Head(le_inbox).new_state,
                         handle_state_change(Head(le_inbox).old_state,
                                             Head(le_inbox).new_state,
                                             lock_out, notify_out))
    /\ LeFrame
    /\ UNCHANGED <<deVars, dev_authority, le_enabled>>

\* a direct call of lock_screen()
LockScreen(lock_out) ==
    LET e == lock_screen(lock_out) IN
    /\ le_call' = LeCall("lock_screen", "none", "none",
                         [lock_calls |-> 1, notify_calls |-> <<>>,
                          commands |-> e.commands, observed |-> e.observed,
                          outcome |-> IF e.commands # <<>> THEN lock_out ELSE "none",
                          ret |-> e.ret])
    /\ LeFrame
    /\ UNCHANGED <<deVars, dev_authority, le_inbox, le_enabled>>

\* a direct call of send_notification(title, message, urgency)
SendNotification(urgency, notify_out) ==
    LET e == send_notification(urgency, notify_out) IN
    /\ le_call' = LeCall("send_notification", "none", "none",
                         [lock_calls |-> 0, notify_calls |-> <<urgency>>,
                          commands |-> e.commands, observed |-> e.observed,
                          outcome |-> IF e.commands # <<>> THEN notify_out ELSE "none",
                          ret |-> e.ret])
    /\ LeFrame
    /\ UNCHANGED <<deVars, dev_authority, le_inbox, le_enabled>>

\* enable() that applies the Decision Engine's current state on the way
Enable_replays ==
    /\ le_enabled' = TRUE
    /\ le_call' = LeCall("enable", "none", "none",
                         IF current_state = LOCKDOWN
                         THEN [lock_calls |-> 1, notify_calls |-> <<"critical">>,
                               commands |-> <<"lock", "notify-send">>,
                               observed |-> <<>>]
                         ELSE NotHandled)
    /\ LeFrame
    /\ UNCHANGED <<deVars, dev_authority, le_inbox>>

\* enable()
Enable ==
    /\ le_enabled' = TRUE
    /\ le_call' = LeCall("enable", "none", "none", NotHandled)
    /\ LeFrame
    /\ UNCHANGED <<deVars, dev_authority, le_inbox>>

\* disable()
Disable ==
    /\ le_enabled' = FALSE
    /\ le_call' = LeCall("disable", "none", "none", NotHandled)
    /\ LeFrame
    /\ UNCHANGED <<deVars, dev_authority, le_inbox>>

(* ======================= Extractors: saving ======================= *)

Measurements == {"keystroke", "mouse", "app"}

\* TimeSeriesDB.write_keystroke_features is wrapped in
\* retry_with_backoff(max_attempts=3); the other two writes are bare
MaxAttempts == 3
Attempts == [1..MaxAttempts -> BOOLEAN]

\* retry_with_backoff: the call returns when a try succeeds and re-raises
\* after the last try; attempts[i] is whether try i succeeds
retry_with_backoff(attempts, max_attempts) ==
    \E i \in 1..max_attempts : attempts[i]

\* how many tries the wrapper makes
TriesMade(attempts, max_attempts) ==
    IF retry_with_backoff(attempts, max_attempts)
    THEN CHOOSE i \in 1..max_attempts :
             attempts[i] /\ \A j \in 1..(i - 1) : ~attempts[j]
    ELSE max_attempts

\* the time-series write of one measurement returns without raising
WriteReturns(kind, attempts) ==
    IF kind = "keystroke" THEN retry_with_backoff(attempts, MaxAttempts)
    ELSE attempts[1]

\* _save_features / the try block of _handle_app_switch: the write, then
\* the publish, inside one try whose except clause prints and returns
_save_features(kind, attempts, pub_ok) ==
    LET written == WriteReturns(kind, attempts)
        publish_reached == written
    IN  [written |-> written,
         tries |-> IF kind = "keystroke" THEN TriesMade(attempts, MaxAttempts) ELSE 1,
         publish_reached |-> publish_reached,
         published |-> publish_reached /\ pub_ok,
         swallowed |-> ~written \/ ~pub_ok,
         loop_alive |-> TRUE]

\* one iteration of process_events in which a feature vector (or an
\* application transition) has been computed and is saved
SaveFeatures(kind, attempts, pub_ok) ==
    /\ ex_saves < MaxSaves
    /\ LET r == _save_features(kind, attempts, pub_ok)
       IN  /\ ex_stored' = [ex_stored EXCEPT ![kind] = IF r.written THEN @ + 1 ELSE @]
           /\ ex_channel' = [ex_channel EXCEPT ![kind] = IF r.published THEN @ + 1 ELSE @]
           /\ ex_call' = [op |-> "save", kind |-> kind, pub_ok |-> pub_ok] @@ r
    /\ ex_saves' = ex_saves + 1
    /\ UNCHANGED <<coreVars, ieVars, dmVars, stVars, fuVars, ksVars, msVars, dvVars>>

\* what one invocation of a wrapped function does: return a value, raise
\* an exception listed in 'exceptions', or raise one that is not listed
Invocations == {"return", "raise", "raise_other"}

\* the loop sleeping the same delay before every retry
RECURSIVE RetryLoop_constant_delay(_, _, _, _, _, _, _)
RetryLoop_constant_delay(outcomes, max_attempts, backoff_factor, attempt, delay, trace, sleeps) ==
    LET called == Append(trace, "call")
    IN  IF attempt > max_attempts
        THEN [trace |-> trace, sleeps |-> sleeps, returned |-> <<>>, raised |-> <<>>]
        ELSE IF outcomes[attempt] = "return"
        THEN [trace |-> called, sleeps |-> sleeps,
              returned |-> <<attempt>>, raised |-> <<>>]
        ELSE IF outcomes[attempt] = "raise_other" \/ attempt = max_attempts
        THEN [trace |-> called, sleeps |-> sleeps,
              returned |-> <<>>, raised |-> <<attempt>>]
        ELSE RetryLoop_constant_delay(outcomes, max_attempts, backoff_factor,
                                      attempt + 1, delay,
                                      Append(called, "sleep"), Append(sleeps, delay))

\* the for loop of retry_with_backoff's wrapper from 'attempt' on; the
\* result and the exception of the n-th invocation are identified by n.
\* When the loop ends without a return, last_exception is raised if there
\* is one; there is none only when the loop body never ran, and the wrapper
\* then falls off its end and returns None (returned and raised both empty)
RECURSIVE RetryLoop(_, _, _, _, _, _, _)
RetryLoop(outcomes, max_attempts, backoff_factor, attempt, delay, trace, sleeps) ==
    LET called == Append(trace, "call")
    IN  IF attempt > max_attempts
        THEN [trace |-> trace, sleeps |-> sleeps, returned |-> <<>>, raised |-> <<>>]
        ELSE IF outcomes[attempt] = "return"
        THEN [trace |-> called, sleeps |-> sleeps,
              returned |-> <<attempt>>, raised |-> <<>>]
        ELSE IF outcomes[attempt] = "raise_other" \/ attempt = max_attempts
        THEN [trace |-> called, sleeps |-> sleeps,
              returned |-> <<>>, raised |-> <<attempt>>]
        ELSE RetryLoop(outcomes, max_attempts, backoff_factor, attempt + 1,
                       delay * backoff_factor,
                       Append(called, "sleep"), Append(sleeps, delay))

\* the wrapper making one attempt whatever max_attempts says
wrapper_at_least_once(outcomes, max_attempts, initial_delay, backoff_factor) ==
    RetryLoop(outcomes, IF max_attempts < 1 THEN 1 ELSE max_attempts,
              backoff_factor, 1, initial_delay, <<>>, <<>>)

\* the wrapper giving up one attempt early
wrapper_one_short(outcomes, max_attempts, initial_delay, backoff_factor) ==
    RetryLoop(outcomes, max_attempts - 1, backoff_factor, 1, initial_delay, <<>>, <<>>)

\* retry_with_backoff(max_attempts, initial_delay, backoff_factor,
\* exceptions)(func)(): delay = initial_delay, then the loop
wrapper(outcomes, max_attempts, initial_delay, backoff_factor) ==
    RetryLoop(outcomes, max_attempts, backoff_factor, 1, initial_delay, <<>>, <<>>)

\* a call of a wrapped function
RetryCall(outcomes, max_attempts, initial_delay, backoff_factor) ==
    /\ ex_saves < MaxSaves
    /\ ex_saves' = ex_saves + 1
    /\ ex_call' = [op |-> "wrapper", outcomes |-> outcomes,
                   max_attempts |-> max_attempts,
                   initial_delay |-> initial_delay,
                   backoff_factor |-> backoff_factor]
                  @@ wrapper(outcomes, max_attempts, initial_delay, backoff_factor)
    /\ UNCHANGED <<ex_stored, ex_channel>>
    /\ UNCHANGED <<coreVars, ieVars, dmVars, stVars, fuVars, ksVars, msVars, dvVars>>

(* ======================= Inference Engine: models ======================= *)

Modalities == {"keystroke", "mouse", "app"}

Attributes == {"keystroke_model", "keystroke_feature_names",
               "mouse_model", "mouse_scaler", "mouse_feature_names",
               "app_model"}

ModelAttr == [m \in Modalities |-> IF m = "keystroke" THEN "keystroke_model"
                                   ELSE IF m = "mouse" THEN "mouse_model"
                                   ELSE "app_model"]

\* reload_models: take _lock, then _load_keystroke_model, _load_mouse_model,
\* _load_app_model, one statement after the other, then release
ReloadSteps ==
    << [op |-> "acquire"],
       [op |-> "load", mod |-> "keystroke"],
       [op |-> "assign", attr |-> "keystroke_model"],
       [op |-> "assign", attr |-> "keystroke_feature_names"],
       [op |-> "load", mod |-> "mouse"],
       [op |-> "assign", attr |-> "mouse_model"],
       [op |-> "assign", attr |-> "mouse_scaler"],
       [op |-> "assign", attr |-> "mouse_feature_names"],
       [op |-> "load", mod |-> "app"],
       [op |-> "assign", attr |-> "app_model"],
       [op |-> "release"] >>

\* the position after the loader that position pc is in
AfterLoader(pc) ==
    IF \E q \in (pc + 1)..Len(ReloadSteps) : ReloadSteps[q].op \in {"load", "release"}
    THEN CHOOSE q \in (pc + 1)..Len(ReloadSteps) :
             /\ ReloadSteps[q].op \in {"load", "release"}
             /\ \A r \in (pc + 1)..(q - 1) : ReloadSteps[r].op = "assign"
    ELSE 0

\* the attributes a scoring call reads, in the order it reads them: the
\* None test on the model, then what it builds the prediction from
ReadOrder ==
    [m \in Modalities |->
        IF m = "keystroke"
        THEN <<"keystroke_model", "keystroke_feature_names", "keystroke_model">>
        ELSE IF m = "mouse"
        THEN <<"mouse_model", "mouse_feature_names", "mouse_scaler", "mouse_model">>
        ELSE <<"app_model", "app_model", "app_model">>]

IeFrame == UNCHANGED <<coreVars, exVars, dmVars, stVars, fuVars, ksVars, msVars, dvVars>>

\* artifacts written to models_dir since the engine was constructed
Trained == ie_disk["keystroke"] + ie_disk["mouse"] + ie_disk["app"] - 3

\* a training run leaves a newer artifact of one modality in models_dir
NewArtifact(mod) ==
    /\ Trained < MaxArtifacts
    /\ ie_disk' = [ie_disk EXCEPT ![mod] = @ + 1]
    /\ UNCHANGED <<ie_attr, ie_lock, rl_pc, rl_data, sc_mod, sc_seen, ie_call>>
    /\ IeFrame

\* reload_models() is called on its thread
ReloadBegin ==
    /\ rl_pc = 0
    /\ ~ie_lock
    /\ ie_lock' = TRUE
    /\ rl_pc' = 2
    /\ UNCHANGED <<ie_attr, ie_disk, rl_data, sc_mod, sc_seen, ie_call>>
    /\ IeFrame

\* joblib.load / json.load of the latest artifact; on an exception the
\* loader sets the modality's model to None and returns
ReloadLoad(load_ok) ==
    /\ rl_pc # 0
    /\ ReloadSteps[rl_pc].op = "load"
    /\ IF load_ok
       THEN /\ rl_data' = ie_disk[ReloadSteps[rl_pc].mod]
            /\ rl_pc' = rl_pc + 1
            /\ UNCHANGED ie_attr
       ELSE /\ ie_attr' = [ie_attr EXCEPT ![ModelAttr[ReloadSteps[rl_pc].mod]] = 0]
            /\ rl_pc' = AfterLoader(rl_pc)
            /\ UNCHANGED rl_data
    /\ UNCHANGED <<ie_disk, ie_lock, sc_mod, sc_seen, ie_call>>
    /\ IeFrame

\* one assignment self.<attr> = model_data[...]
ReloadAssign ==
    /\ rl_pc # 0
    /\ ReloadSteps[rl_pc].op = "assign"
    /\ ie_attr' = [ie_attr EXCEPT ![ReloadSteps[rl_pc].attr] = rl_data]
    /\ rl_pc' = rl_pc + 1
    /\ UNCHANGED <<ie_disk, ie_lock, rl_data, sc_mod, sc_seen, ie_call>>
    /\ IeFrame

\* the with block ends
ReloadEnd ==
    /\ rl_pc # 0
    /\ ReloadSteps[rl_pc].op = "release"
    /\ ie_lock' = FALSE
    /\ rl_pc' = 0
    /\ UNCHANGED <<ie_attr, ie_disk, rl_data, sc_mod, sc_seen, ie_call>>
    /\ IeFrame

Neutral(mod) == [op |-> "score", mod |-> mod, used |-> <<>>, result |-> "neutral"]

\* score_<modality>: the test `self.<model> is None`; the scoring
\* methods do not take _lock
ScoreBegin(mod) ==
    /\ sc_mod = "none"
    /\ IF ie_attr[ReadOrder[mod][1]] = 0
       THEN /\ ie_call' = Neutral(mod)
            /\ UNCHANGED <<sc_mod, sc_seen>>
       ELSE /\ sc_mod' = mod
            /\ sc_seen' = <<ie_attr[ReadOrder[mod][1]]>>
            /\ UNCHANGED ie_call
    /\ UNCHANGED <<ie_attr, ie_disk, ie_lock, rl_pc, rl_data>>
    /\ IeFrame

\* the next read of self.<attribute> in the scoring call; after the last
\* one the prediction is made (a model that has become None raises, and
\* the except clause returns the neutral score)
ScoreRead ==
    /\ sc_mod # "none"
    /\ LET order == ReadOrder[sc_mod]
           seen == Append(sc_seen, ie_attr[order[Len(sc_seen) + 1]])
       IN  IF Len(seen) < Len(order)
           THEN /\ sc_seen' = seen
                /\ UNCHANGED <<sc_mod, ie_call>>
           ELSE /\ sc_mod' = "none"
                /\ sc_seen' = <<>>
                /\ ie_call' = IF seen[Len(seen)] = 0
                              THEN Neutral(sc_mod)
                              ELSE [op |-> "score", mod |-> sc_mod,
                                    used |-> Tail(seen), result |-> "scored"]
    /\ UNCHANGED <<ie_attr, ie_disk, ie_lock, rl_pc, rl_data>>
    /\ IeFrame

(* ======================= Inference Engine: fusion ======================= *)

\* scores are held in thousandths of a point; as a float operation rounds
\* to the nearest representable value, each multiplication and division
\* here rounds to the nearest thousandth
Points(n) == n * 1000
NeutralScore == Points(50)

\* a / b rounded to the nearest integer
RoundDiv(a, b) ==
    IF b > 0 THEN (2 * a + b) \div (2 * b)
    ELSE (2 * (0 - a) + (0 - b)) \div (2 * (0 - b))

\* the scores a model can return for a feature message
RawScores == {Points(0), Points(50) + 5, Points(100)}

\* deque(maxlen=10)
ScoreHistoryLen == 10

\* smooth(scores, alpha=0.3): exponential moving average, 50.0 when empty;
\* result = alpha * score + (1 - alpha) * result, two products and a sum
RECURSIVE SmoothFrom(_, _)
SmoothFrom(result, rest) ==
    IF rest = <<>> THEN result
    ELSE SmoothFrom(RoundDiv(3 * Head(rest), 10) + RoundDiv(7 * result, 10),
                    Tail(rest))

\* smooth seeded with the newest score and folded towards the oldest
RECURSIVE SmoothBack(_, _)
SmoothBack(result, rest) ==
    IF rest = <<>> THEN result
    ELSE SmoothBack(RoundDiv(3 * rest[Len(rest)], 10) + RoundDiv(7 * result, 10),
                    SubSeq(rest, 1, Len(rest) - 1))

smooth_newest_first(scores) ==
    IF scores = <<>> THEN NeutralScore
    ELSE SmoothBack(scores[Len(scores)], SubSeq(scores, 1, Len(scores) - 1))

smooth(scores) ==
    IF scores = <<>> THEN NeutralScore ELSE SmoothFrom(Head(scores), Tail(scores))

\* get_smoothed_scores reporting 0 for a modality that has no score yet
get_smoothed_scores_zero_when_empty(hist) ==
    [m \in Modalities |-> IF hist[m] = <<>> THEN 0 ELSE smooth(hist[m])]

get_smoothed_scores(hist) == [m \in Modalities |-> smooth(hist[m])]

\* the default weights 0.4 / 0.35 / 0.25, in hundredths
DefaultWeights == [keystroke |-> 40, mouse |-> 35, app |-> 25]

\* get_fused_score(keystroke_weight, mouse_weight, app_weight): the weights
\* are divided by their sum (ZeroDivisionError when it is 0: no value),
\* then the weighted sum of the smoothed scores
get_fused_score(hist, w) ==
    LET smoothed == get_smoothed_scores(hist)
        total_weight == w["keystroke"] + w["mouse"] + w["app"]
        norm(m) == RoundDiv(w[m] * 1000, total_weight)
    IN  IF total_weight = 0 THEN <<>>
        ELSE << RoundDiv(smoothed["keystroke"] * norm("keystroke"), 1000)
                + RoundDiv(smoothed["mouse"] * norm("mouse"), 1000)
                + RoundDiv(smoothed["app"] * norm("app"), 1000) >>

\* score_<modality> with the neutral score stored like a computed one
ScoredHistory_stores_neutral(hist, mod, raw, predict_ok) ==
    IF ie_attr[ModelAttr[mod]] = 0 \/ ~predict_ok
    THEN [hist EXCEPT ![mod] = DequeAppend(@, NeutralScore, ScoreHistoryLen)]
    ELSE [hist EXCEPT ![mod] = DequeAppend(@, raw, ScoreHistoryLen)]

\* score_<modality>: the neutral score, nothing stored, when no model is
\* loaded or the prediction raises; else the model's score, stored
ScoredHistory(hist, mod, raw, predict_ok) ==
    IF ie_attr[ModelAttr[mod]] = 0 \/ ~predict_ok THEN hist
    ELSE [hist EXCEPT ![mod] = DequeAppend(@, raw, ScoreHistoryLen)]

\* the value score_<modality> returns
ScoreReturned(mod, raw, predict_ok) ==
    IF ie_attr[ModelAttr[mod]] = 0 \/ ~predict_ok THEN NeutralScore ELSE raw

\* _publish_fused_score: the message sent on seclyzer:scores:fused
FusedMessage(hist, dev) ==
    LET smoothed == get_smoothed_scores(hist)
    IN  [fused_score |-> get_fused_score(hist, DefaultWeights)[1],
         keystroke_score |-> smoothed["keystroke"],
         mouse_score |-> smoothed["mouse"],
         app_score |-> smoothed["app"],
         dev_mode |-> dev]

\* the feature messages the loop tells apart: data that json.loads
\* rejects, an object without a usable from_app / to_app pair, and an
\* object carrying all it needs
FeatureMessages == {"undecodable", "no_transition", "complete"}

\* the message reaches its modality's scorer: always on the keystroke and
\* mouse channels, on the app channel only 'if from_app and to_app'
ReachesScorer(mod, msg) ==
    /\ msg # "undecodable"
    /\ mod = "app" => msg = "complete"

\* one iteration of process_features for a message on a features channel:
\* the data is decoded, is_dev_mode is read, the modality is scored and its
\* score published, then the fused score is published; pub_ok: the
\* publishes succeed (an exception is logged and the loop goes on)
ProcessFeatures(mod, msg, raw, predict_ok, pub_ok) ==
    /\ if_msgs < MaxFeatures
    /\ if_msgs' = if_msgs + 1
    /\ LET hist == IF ReachesScorer(mod, msg)
                   THEN ScoredHistory(ie_scores, mod, raw, predict_ok)
                   ELSE ie_scores
           sent == msg # "undecodable" /\ pub_ok
       IN  /\ ie_scores' = hist
           /\ if_call' = [op |-> "process_features", mod |-> mod, msg |-> msg,
                          is_dev_mode |-> dev_authority,
                          pub_ok |-> pub_ok,
                          published |->
                              (IF sent /\ ReachesScorer(mod, msg)
                               THEN <<"seclyzer:scores:" \o mod>> ELSE <<>>)
                              \o (IF sent THEN <<"seclyzer:scores:fused">> ELSE <<>>),
                          fused |-> IF sent
                                    THEN <<FusedMessage(hist, dev_authority)>>
                                    ELSE <<>>,
                          loop_alive |-> TRUE]
    /\ UNCHANGED <<coreVars, exVars, ieVars, dmVars, stVars, ksVars, msVars, dvVars>>

\* score_<modality> called directly (as the tests and an embedding
\* program do)
ScoreCall(mod, raw, predict_ok) ==
    /\ if_msgs' = if_msgs + 1
    /\ ie_scores' = ScoredHistory(ie_scores, mod, raw, predict_ok)
    /\ if_call' = [op |-> "score", mod |-> mod, raw |-> raw,
                   model_loaded |-> ie_attr[ModelAttr[mod]] # 0,
                   predict_ok |-> predict_ok,
                   held |-> Len(ie_scores[mod]),
                   returned |-> <<ScoreReturned(mod, raw, predict_ok)>>]
    /\ UNCHANGED <<coreVars, exVars, ieVars, dmVars, stVars, ksVars, msVars, dvVars>>

\* get_smoothed_scores called directly
SmoothedCall ==
    /\ if_call' = [op |-> "get_smoothed_scores",
                   returned |-> <<get_smoothed_scores(ie_scores)>>]
    /\ UNCHANGED <<coreVars, exVars, ieVars, dmVars, stVars, ksVars, msVars, dvVars,
                   ie_scores, if_msgs>>

\* get_fused_score called directly with a triple of weights
FusedCall(w) ==
    /\ if_call' = [op |-> "get_fused_score", weights |-> w,
                   returned |-> get_fused_score(ie_scores, w)]
    /\ UNCHANGED <<coreVars, exVars, ieVars, dmVars, stVars, ksVars, msVars, dvVars,
                   ie_scores, if_msgs>>

(* ======================= Keystroke Extractor ======================= *)

\* A feature vector is a function from its keys to how each value was
\* produced: ZERO for a literal 0.0 of a zero-fill branch, COMPUTED for a
\* value calculated from the window's samples.  A key f"{name}_{i}" is the
\* pair <<name, i>>, any other key the 1-tuple <<name>>.
ZERO == "zero"
COMPUTED == "computed"

Keyed(names, how) == [k \in {<<n>> : n \in names} |-> how]
Indexed(name, lo, hi, how) == [k \in {<<name, i>> : i \in lo..hi} |-> how]

KeystrokeMinEvents == 10
KeystrokeWindowMs == 30000

\* the raw events the collector sends: one key, pressed or released, at the
\* same instant as the previous event or 100 ms after it
KeyEvents ==
    {[key |-> "a", event_type |-> "press", dt |-> 0],
     [key |-> "a", event_type |-> "press", dt |-> 100],
     [key |-> "a", event_type |-> "release", dt |-> 100]}

KeysOf(evs) == {evs[i].key : i \in DOMAIN evs}

IsPress(e) == e.event_type = "press"

\* presses = df.filter(event_type == "press").sort("timestamp")
Presses(evs) == SelectSeq(evs, IsPress)

\* _calculate_dwell_times, the loop over one key's events; press_time -1 is None
RECURSIVE DwellLoop(_, _, _)
DwellLoop(evs, press_time, acc) ==
    IF evs = <<>> THEN acc
    ELSE LET e == Head(evs)
         IN  IF e.event_type = "press"
             THEN DwellLoop(Tail(evs), e.timestamp, acc)
             ELSE IF e.event_type = "release" /\ press_time # -1
             THEN LET dwell == e.timestamp - press_time
                  IN  DwellLoop(Tail(evs), -1,
                                IF 0 < dwell /\ dwell < 1000 THEN Append(acc, dwell) ELSE acc)
             ELSE DwellLoop(Tail(evs), press_time, acc)

RECURSIVE DwellOverKeys(_, _)
DwellOverKeys(evs, keys) ==
    IF keys = {} THEN <<>>
    ELSE LET k == CHOOSE x \in keys : TRUE
             OfKey(e) == e.key = k
         IN  DwellLoop(SelectSeq(evs, OfKey), -1, <<>>) \o DwellOverKeys(evs, keys \ {k})

_calculate_dwell_times(evs) == DwellOverKeys(evs, KeysOf(evs))

\* _calculate_flight_times; last_release_time -1 is None
RECURSIVE FlightLoop(_, _, _)
FlightLoop(evs, last_release_time, acc) ==
    IF evs = <<>> THEN acc
    ELSE LET e == Head(evs)
         IN  IF e.event_type = "release"
             THEN FlightLoop(Tail(evs), e.timestamp, acc)
             ELSE IF e.event_type = "press" /\ last_release_time # -1
             THEN LET flight == e.timestamp - last_release_time
                  IN  FlightLoop(Tail(evs), last_release_time,
                                 IF 0 < flight /\ flight < 2000 THEN Append(acc, flight) ELSE acc)
             ELSE FlightLoop(Tail(evs), last_release_time, acc)

_calculate_flight_times(evs) == FlightLoop(evs, -1, <<>>)

\* the key pairs of consecutive presses less than 2000 ms apart
DigraphPairs(evs) ==
    LET p == Presses(evs)
    IN  {<<p[i].key, p[i + 1].key>> : i \in
            {j \in 1..(Len(p) - 1) : 0 < p[j + 1].timestamp - p[j].timestamp
                                     /\ p[j + 1].timestamp - p[j].timestamp < 2000}}

\* _calculate_digraphs: the top 20 pairs, padded with 0.0 up to 20; the key
\* f"digraph_{i}_mean" is the pair <<"digraph_mean", i>>
_calculate_digraphs(evs) ==
    LET n == Cardinality(DigraphPairs(evs))
        top == IF n < 20 THEN n ELSE 20
    IN  [k \in {<<"digraph_mean", i>> : i \in 0..19} |->
            IF k[2] < top THEN COMPUTED ELSE ZERO]

\* _calculate_error_patterns
_calculate_error_patterns(evs) ==
    Keyed({"backspace_frequency", "backspace_count", "correction_rate",
           "clean_typing_ratio"}, COMPUTED)

\* the inter-key intervals between 0 and 5000 ms
RhythmIntervals(evs) ==
    LET p == Presses(evs)
    IN  {j \in 1..(Len(p) - 1) : 0 < p[j + 1].timestamp - p[j].timestamp
                                 /\ p[j + 1].timestamp - p[j].timestamp < 5000}

\* _calculate_rhythm
_calculate_rhythm(evs) ==
    IF Len(Presses(evs)) < 2 THEN Indexed("rhythm", 0, 7, ZERO)
    ELSE IF RhythmIntervals(evs) = {} THEN Indexed("rhythm", 0, 7, ZERO)
    ELSE Keyed({"rhythm_consistency", "burst_frequency", "pause_frequency",
                "avg_burst_speed", "avg_pause_duration", "rhythm_variation",
                "typing_speed_wpm", "rhythm_stability"}, COMPUTED)

\* recent_events = [e for e in self.events if e["timestamp"] > cutoff_time]
RecentEvents(events, now) ==
    LET InWindow(e) == e.timestamp > now - KeystrokeWindowMs
    IN  SelectSeq(events, InWindow)

\* extract_features at time now: <<>> is None, <<f>> the vector f
extract_features(events, now) ==
    LET recent == RecentEvents(events, now)
        dwell == IF _calculate_dwell_times(recent) # <<>>
                 THEN Keyed({"dwell_mean", "dwell_std", "dwell_min", "dwell_max",
                             "dwell_median", "dwell_q25", "dwell_q75", "dwell_range"},
                            COMPUTED)
                 ELSE <<>>
        flight == IF _calculate_flight_times(recent) # <<>>
                  THEN Keyed({"flight_mean", "flight_std", "flight_min", "flight_max",
                              "flight_median", "flight_q25", "flight_q75", "flight_range"},
                             COMPUTED)
                  ELSE <<>>
    IN  IF Len(recent) < KeystrokeMinEvents THEN <<>>
        ELSE << dwell @@ flight @@ _calculate_digraphs(recent)
                @@ _calculate_error_patterns(recent) @@ _calculate_rhythm(recent)
                @@ Keyed({"dev_mode", "total_keys"}, COMPUTED) >>

LastTimestamp(events) == IF events = <<>> THEN 0 ELSE events[Len(events)].timestamp

\* one iteration of process_events for a keystroke event: _add_event; when
\* the update interval has elapsed (due), extract_features at a time `age`
\* after the event
KeystrokeEvent(ev, due, age) ==
    /\ Len(ks_events) < MaxWindow
    /\ LET events == Append(ks_events,
                            [timestamp |-> LastTimestamp(ks_events) + ev.dt,
                             key |-> ev.key, event_type |-> ev.event_type,
                             dev_mode |-> dev_authority])
           now == LastTimestamp(events) + age
       IN  /\ ks_events' = events
           /\ ks_call' = IF due
                         THEN [op |-> "extract",
                               recent |-> Len(RecentEvents(events, now)),
                               features |-> extract_features(events, now)]
                         ELSE [op |-> "add"]
    /\ UNCHANGED <<coreVars, exVars, ieVars, dmVars, stVars, fuVars, msVars, dvVars>>

\* the messages on seclyzer:events as the keystroke extractor tells them
\* apart: data json.loads rejects, an event of another type, a keystroke
\* event without "ts", without "key", without "event", and a complete one
KeystrokeMessages ==
    {"undecodable", "other_modality", "missing_ts", "missing_key",
     "missing_event", "event"}

\* _add_event reading the fields with defaults instead of event[...]
_add_event_lenient(events, msg, ev) ==
    <<Append(events,
             [timestamp |-> LastTimestamp(events) + ev.dt,
              key |-> ev.key, event_type |-> ev.event_type,
              dev_mode |-> dev_authority])>>

\* _add_event: the dict is built from event["ts"], event["key"] and
\* event["event"] before deque.append is called; a missing key raises
\* KeyError (no value) and nothing is appended
_add_event(events, msg, ev) ==
    IF msg \in {"missing_ts", "missing_key", "missing_event"} THEN <<>>
    ELSE <<Append(events,
                  [timestamp |-> LastTimestamp(events) + ev.dt,
                   key |-> ev.key, event_type |-> ev.event_type,
                   dev_mode |-> dev_authority])>>

\* one iteration of the keystroke extractor's process_events for any
\* message: json.loads, the type test, _add_event, the cadence check,
\* extract_features, _save_features for a vector, last_update; every
\* exception is caught and logged inside the loop
KeystrokeMessage(msg, ev, due, age) ==
    LET on_modality == msg \notin {"undecodable", "other_modality"}
        added == IF on_modality THEN _add_event(ks_events, msg, ev) ELSE <<>>
        events == IF added = <<>> THEN ks_events ELSE added[1]
        checked == added # <<>>
        extracted == checked /\ due
        now == LastTimestamp(events) + age
    IN  /\ Len(ks_events) < MaxWindow
        /\ ks_events' = events
        /\ ks_call' = [op |-> "message", msg |-> msg,
                       raised |-> msg = "undecodable" \/ (on_modality /\ added = <<>>),
                       appended |-> added # <<>>,
                       cadence_checked |-> checked,
                       extracted |-> extracted,
                       saved |-> extracted /\ extract_features(events, now) # <<>>,
                       last_update_set |-> extracted,
                       loop_alive |-> TRUE]
        /\ UNCHANGED <<coreVars, exVars, ieVars, dmVars, stVars, fuVars, msVars, dvVars>>

(* ======================= Mouse Extractor ======================= *)

MouseMinEvents == 50

\* the kinds of event in the buffer, by what extract_features tests:
\* a move with coordinates, a move without (x is None), a button press or
\* release, a scroll with a delta, a scroll whose scroll_delta is None
MouseKinds == {"move", "move_nox", "click", "scroll", "scroll_nodelta"}

\* the kinds whose number in the window is bounded by MaxRare
RareKinds == {"click", "scroll", "scroll_nodelta"}

WindowSize(w) ==
    w["move"] + w["move_nox"] + w["click"] + w["scroll"] + w["scroll_nodelta"]

\* _calculate_movement_features
_calculate_movement_features(movements) == Indexed("move", 0, 19, COMPUTED)

\* _calculate_click_features
_calculate_click_features(clicks) == Indexed("click", 0, 9, COMPUTED)

\* _calculate_scroll_features without the test on deltas
_calculate_scroll_features_unguarded(scrolls, deltas) ==
    Indexed("scroll", 0, 7, COMPUTED)

\* _calculate_scroll_features: scrolls events of which deltas carry a delta
_calculate_scroll_features(scrolls, deltas) ==
    IF deltas = 0 THEN Indexed("scroll", 0, 7, ZERO)
    ELSE Indexed("scroll", 0, 7, COMPUTED)

\* MouseExtractor.extract_features over the recent events w: <<>> is None
mouse_extract_features(w) ==
    LET movements == w["move"]
        clicks == w["click"]
        scrolls == w["scroll"] + w["scroll_nodelta"]
    IN  IF WindowSize(w) < MouseMinEvents THEN <<>>
        ELSE << (IF movements > 2 THEN _calculate_movement_features(movements)
                 ELSE Indexed("move", 0, 19, ZERO))
                @@ (IF clicks > 0 THEN _calculate_click_features(clicks)
                    ELSE Indexed("click", 0, 9, ZERO))
                @@ (IF scrolls > 0 THEN _calculate_scroll_features(scrolls, w["scroll"])
                    ELSE Indexed("scroll", 0, 7, ZERO))
                @@ Keyed({"dev_mode"}, COMPUTED) >>

MsFrame == UNCHANGED <<coreVars, exVars, ieVars, dmVars, stVars, fuVars, ksVars,
                       dvVars>>

\* one iteration of process_events for a mouse event: _add_event; when the
\* update interval has elapsed (due), extract_features
MouseEvent(kind, due) ==
    /\ WindowSize(ms_window) < MaxMouse
    /\ kind \in RareKinds => ms_window[kind] < MaxRare
    /\ LET w == [ms_window EXCEPT ![kind] = @ + 1]
       IN  /\ ms_window' = w
           /\ ms_call' = IF due
                         THEN [op |-> "extract", window |-> w,
                               features |-> mouse_extract_features(w)]
                         ELSE [op |-> "add"]
    /\ MsFrame

\* time passes: the oldest event of a kind falls behind cutoff_time
MouseExpire(kind) ==
    /\ ms_window[kind] > 0
    /\ ms_window' = [ms_window EXCEPT ![kind] = @ - 1]
    /\ ms_call' = [op |-> "expire"]
    /\ MsFrame

\* the messages on seclyzer:events as the mouse extractor tells them
\* apart: x, y, button and scroll_delta are read with event.get
MouseMessages ==
    {"undecodable", "other_modality", "missing_ts", "missing_event", "event"}

\* MouseExtractor._add_event: event['ts'] and event['event'] are read
\* while the dict is built; a missing key raises KeyError (no value)
mouse_add_event(w, msg, kind) ==
    IF msg \in {"missing_ts", "missing_event"} THEN <<>>
    ELSE <<[w EXCEPT ![kind] = @ + 1]>>

\* one iteration of the mouse extractor's process_events for any message
MouseMessage(msg, kind, due) ==
    LET on_modality == msg \notin {"undecodable", "other_modality"}
        added == IF on_modality THEN mouse_add_event(ms_window, msg, kind) ELSE <<>>
        w == IF added = <<>> THEN ms_window ELSE added[1]
        checked == added # <<>>
        extracted == checked /\ due
    IN  /\ WindowSize(ms_window) < MaxMouse
        /\ kind \in RareKinds => ms_window[kind] < MaxRare
        /\ ms_window' = w
        /\ ms_call' = [op |-> "message", msg |-> msg,
                       raised |-> msg = "undecodable" \/ (on_modality /\ added = <<>>),
                       appended |-> added # <<>>,
                       cadence_checked |-> checked,
                       extracted |-> extracted,
                       saved |-> extracted /\ mouse_extract_features(w) # <<>>,
                       last_update_set |-> extracted,
                       loop_alive |-> TRUE]
        /\ MsFrame

(* ======================= Daemon: worker threads ======================= *)

\* the order in which start() starts the threads and stop() stops the engines
Workers == <<"inference", "decision", "locking">>
WorkerSet == {Workers[i] : i \in DOMAIN Workers}

DmFrame == UNCHANGED <<coreVars, exVars, ieVars, stVars, fuVars, ksVars, msVars, dvVars>>

\* start() up to `self._running = True`: the engines are constructed
DaemonStart ==
    /\ dm_phase = "new"
    /\ dm_phase' = "starting"
    /\ dm_next' = 1
    /\ UNCHANGED <<dm_half, wk_pc, wk_running, wk_sub, wk_stopped, wk_pending, wk_late>>
    /\ DmFrame

\* start(): the next thread.start()
StartThread ==
    /\ dm_phase = "starting"
    /\ wk_pc' = [wk_pc EXCEPT ![Workers[dm_next]] = "start"]
    /\ IF dm_next < Len(Workers)
       THEN dm_next' = dm_next + 1 /\ UNCHANGED dm_phase
       ELSE dm_next' = 1 /\ dm_phase' = "up"
    /\ UNCHANGED <<dm_half, wk_running, wk_sub, wk_stopped, wk_pending, wk_late>>
    /\ DmFrame

\* stop() is entered: from the signal handler, at any point once the
\* engines exist
DaemonStop ==
    /\ dm_phase \in {"starting", "up"}
    /\ dm_phase' = "stopping"
    /\ dm_next' = 1
    /\ UNCHANGED <<dm_half, wk_pc, wk_running, wk_sub, wk_stopped, wk_pending, wk_late>>
    /\ DmFrame

\* <engine>.stop(): self._running = False
StopFlag ==
    /\ dm_phase = "stopping"
    /\ ~dm_half
    /\ wk_running' = [wk_running EXCEPT ![Workers[dm_next]] = FALSE]
    /\ wk_stopped' = [wk_stopped EXCEPT ![Workers[dm_next]] = TRUE]
    /\ dm_half' = TRUE
    /\ UNCHANGED <<dm_phase, dm_next, wk_pc, wk_sub, wk_pending, wk_late>>
    /\ DmFrame

\* <engine>.stop(): self.pubsub.unsubscribe(); after the last engine the
\* threads are joined with a timeout and stop() returns
StopUnsubscribe ==
    /\ dm_phase = "stopping"
    /\ dm_half
    /\ wk_sub' = [wk_sub EXCEPT ![Workers[dm_next]] = FALSE]
    /\ dm_half' = FALSE
    /\ IF dm_next < Len(Workers)
       THEN dm_next' = dm_next + 1 /\ UNCHANGED dm_phase
       ELSE dm_next' = 1 /\ dm_phase' = "stopped"
    /\ UNCHANGED <<wk_pc, wk_running, wk_stopped, wk_pending, wk_late>>
    /\ DmFrame

\* process_features / process_scores / run: self.pubsub.subscribe(...)
WorkerSubscribe(w) ==
    /\ wk_pc[w] = "start"
    /\ wk_pc' = [wk_pc EXCEPT ![w] = "subscribed"]
    /\ wk_sub' = [wk_sub EXCEPT ![w] = TRUE]
    /\ UNCHANGED <<dm_phase, dm_next, dm_half, wk_running, wk_stopped, wk_pending, wk_late>>
    /\ DmFrame

\* process_features / process_scores / run: self._running = True
WorkerSetRunning(w) ==
    /\ wk_pc[w] = "subscribed"
    /\ wk_pc' = [wk_pc EXCEPT ![w] = "loop"]
    /\ wk_running' = [wk_running EXCEPT ![w] = TRUE]
    /\ UNCHANGED <<dm_phase, dm_next, dm_half, wk_sub, wk_stopped, wk_pending, wk_late>>
    /\ DmFrame

\* a publisher publishes on a channel the worker is subscribed to
Deliver(w) ==
    /\ wk_sub[w]
    /\ wk_pending[w] < MaxPending
    /\ wk_pending' = [wk_pending EXCEPT ![w] = @ + 1]
    /\ UNCHANGED <<dm_phase, dm_next, dm_half, wk_pc, wk_running, wk_sub, wk_stopped, wk_late>>
    /\ DmFrame

\* one iteration of `for message in self.pubsub.listen()`: a delivered
\* message is read; the flag is tested; the message is handled
WorkerMessage(w) ==
    /\ wk_pc[w] = "loop"
    /\ wk_pending[w] > 0
    /\ wk_pending' = [wk_pending EXCEPT ![w] = @ - 1]
    /\ IF ~wk_running[w]
       THEN /\ wk_pc' = [wk_pc EXCEPT ![w] = "exited"]
            /\ UNCHANGED wk_late
       ELSE /\ wk_late' = [wk_late EXCEPT ![w] = @ \/ wk_stopped[w]]
            /\ UNCHANGED wk_pc
    /\ UNCHANGED <<dm_phase, dm_next, dm_half, wk_running, wk_sub, wk_stopped>>
    /\ DmFrame

\* listen() on a pubsub with no subscription left: it yields the
\* unsubscribe confirmation (the loop breaks or skips it) and then ends
WorkerListenEnds(w) ==
    /\ wk_pc[w] = "loop"
    /\ wk_pending[w] = 0
    /\ ~wk_sub[w]
    /\ wk_pc' = [wk_pc EXCEPT ![w] = "exited"]
    /\ UNCHANGED <<dm_phase, dm_next, dm_half, wk_running, wk_sub, wk_stopped,
                   wk_pending, wk_late>>
    /\ DmFrame

(* ======================= Daemon: status queries ======================= *)

\* the engine's values that get_status reports
Snapshot(cur, prev, low, hist) ==
    [current_state |-> cur, previous_state |-> prev,
     low_score_count |-> low, recent_scores |-> hist]

StFrame == UNCHANGED <<normal_threshold, monitoring_threshold, restricted_threshold,
                       confirmation_count, db_available, dev_authority, le_inbox,
                       leVars, exVars, ieVars, dmVars, fuVars, ksVars, msVars, dvVars>>

\* process_score on the decision thread, statement by statement.
\* self.score_history.append(score), then the bypass test, which returns
PsAppend(score, dev) ==
    /\ ps_pc = "idle"
    /\ de_calls < MaxCalls
    /\ de_calls' = de_calls + 1
    /\ score_history' = DequeAppend(score_history, score, confirmation_count * 2)
    /\ ps_score' = score
    /\ IF Bypass(dev)
       THEN /\ ps_pc' = "idle"
            /\ de_call' = [op |-> "process_score", score |-> score, bypass |-> TRUE,
                           decision |-> <<BypassDecision>>]
            /\ de_quiet' = de_quiet \cup {Snapshot(current_state, previous_state,
                                                   low_score_count, score_history')}
       ELSE /\ ps_pc' = "count"
            /\ UNCHANGED <<de_call, de_quiet>>
    /\ UNCHANGED <<current_state, previous_state, low_score_count, ps_target,
                   gs_pc, gs_seen, gs_call>>
    /\ StFrame

\* target_state = determine_state(score); the low_score_count update; the
\* should_change test; with no change the call builds its result and returns
PsCount ==
    /\ ps_pc = "count"
    /\ LET target == determine_state(ps_score)
           low == NextLowCount(target)
           change == ShouldChange(target, low) /\ target # current_state
       IN  /\ low_score_count' = low
           /\ ps_target' = target
           /\ IF change
              THEN /\ ps_pc' = "prev"
                   /\ UNCHANGED <<de_call, de_quiet>>
              ELSE /\ ps_pc' = "idle"
                   /\ de_call' = [op |-> "process_score", score |-> ps_score,
                                  bypass |-> FALSE,
                                  decision |-> <<BuildResult(current_state, ps_score, low)>>]
                   /\ de_quiet' = de_quiet \cup {Snapshot(current_state, previous_state,
                                                          low, score_history)}
    /\ UNCHANGED <<current_state, previous_state, score_history, de_calls, ps_score,
                   gs_pc, gs_seen, gs_call>>
    /\ StFrame

\* self.previous_state = self.current_state
PsPrevious ==
    /\ ps_pc = "prev"
    /\ previous_state' = current_state
    /\ ps_pc' = "cur"
    /\ UNCHANGED <<current_state, score_history, low_score_count, de_calls, de_call,
                   ps_score, ps_target, de_quiet, gs_pc, gs_seen, gs_call>>
    /\ StFrame

\* self.current_state = target_state, then _on_state_change, the result
\* and the audit record, and the call returns
PsCurrent ==
    /\ ps_pc = "cur"
    /\ current_state' = ps_target
    /\ ps_pc' = "idle"
    /\ de_call' = [op |-> "process_score", score |-> ps_score, bypass |-> FALSE,
                   decision |-> <<BuildResult(ps_target, ps_score, low_score_count)>>]
    /\ de_quiet' = de_quiet \cup {Snapshot(ps_target, previous_state,
                                           low_score_count, score_history)}
    /\ UNCHANGED <<previous_state, score_history, low_score_count, de_calls,
                   ps_score, ps_target, gs_pc, gs_seen, gs_call>>
    /\ StFrame

GsFrame == UNCHANGED <<deVars, ps_pc, ps_score, ps_target, de_quiet>>

\* SecLyzerDaemon.get_status -> DecisionEngine.get_status on another
\* thread: recent_scores = list(self.score_history)
GsBegin ==
    /\ gs_pc = 0
    /\ gs_pc' = 1
    /\ gs_seen' = <<score_history>>
    /\ UNCHANGED gs_call
    /\ GsFrame
    /\ StFrame

\* get_status: the next attribute read of the returned dict, in the order
\* current_state, previous_state, low_score_count; then it returns
GsRead ==
    /\ gs_pc > 0
    /\ LET seen == Append(gs_seen, IF gs_pc = 1 THEN current_state
                                   ELSE IF gs_pc = 2 THEN previous_state
                                   ELSE low_score_count)
       IN  IF gs_pc < 3
           THEN /\ gs_pc' = gs_pc + 1
                /\ gs_seen' = seen
                /\ UNCHANGED gs_call
           ELSE /\ gs_pc' = 0
                /\ gs_seen' = <<>>
                /\ gs_call' = [op |-> "get_status",
                               during |-> ps_pc,
                               status |-> Snapshot(seen[2], seen[3], seen[4], seen[1])]
    /\ GsFrame
    /\ StFrame

(* ======================= Developer Mode ======================= *)

\* _load_config when no file exists at config_path: {"enabled": False};
\* every other key then takes the default of its .get()
AbsentConfig ==
    [enabled |-> FALSE, magic_file |-> FALSE, env_var |-> FALSE,
     key_sequence |-> FALSE, password_override |-> FALSE,
     auto_disable_hours |-> 0, duration_minutes |-> 5, audit_log |-> TRUE]

\* what _load_config can return: no file; a file switching every method
\* on, with enabled true or false and auto_disable_hours 0 or 1; a file
\* with the key sequence as its only method
DevConfigs ==
    {AbsentConfig}
    \cup {[AbsentConfig EXCEPT !.enabled = e, !.magic_file = TRUE,
                               !.env_var = TRUE, !.key_sequence = TRUE,
                               !.password_override = TRUE,
                               !.auto_disable_hours = h] :
            e \in BOOLEAN, h \in {0, 1}}
    \cup {[AbsentConfig EXCEPT !.enabled = TRUE, !.key_sequence = TRUE]}

\* active = False, activation_time = None, activation_method = None
Inactive ==
    [active |-> FALSE, activation_time |-> <<>>, activation_method |-> "none"]

_check_magic_file(cfg, env) == cfg.magic_file /\ env.magic_file

\* os.environ.get(var_name) == "1"
_check_env_var(cfg, env) == cfg.env_var /\ env.env_var

\* a method returning b with the object as o
DvReturn(b, o) == [ret |-> <<b>>, obj |-> o, raised |-> FALSE, log |-> <<>>]

\* a method returning b after _activate / _deactivate did a, or ending with
\* the exception a ended with
DvAfter(a, b) ==
    [ret |-> IF a.raised THEN <<>> ELSE <<b>>, obj |-> a.obj,
     raised |-> a.raised, log |-> a.log]

\* _activate that records the time and the method but not the flag
_activate_without_flag(cfg, method, now, log_ok) ==
    [obj |-> [active |-> FALSE, activation_time |-> <<now>>,
              activation_method |-> method],
     raised |-> cfg.audit_log /\ ~log_ok,
     log |-> IF cfg.audit_log /\ log_ok THEN <<"ACTIVATED">> ELSE <<>>]

\* _activate(method): the three fields are assigned first, then the audit
\* line is written when security.audit_log (default True) is set; log_ok:
\* _log_event returns (its os.makedirs and its fallback write are not
\* caught).  _show_warning catches everything.
_activate(cfg, method, now, log_ok) ==
    [obj |-> [active |-> TRUE, activation_time |-> <<now>>,
              activation_method |-> method],
     raised |-> cfg.audit_log /\ ~log_ok,
     log |-> IF cfg.audit_log /\ log_ok THEN <<"ACTIVATED">> ELSE <<>>]

\* _deactivate(reason): the audit line is written first (if active), then
\* the three fields are reset
_deactivate(o, log_ok) ==
    IF o.active /\ ~log_ok
    THEN [obj |-> o, raised |-> TRUE, log |-> <<>>]
    ELSE [obj |-> Inactive, raised |-> FALSE,
          log |-> IF o.active THEN <<"DEACTIVATED">> ELSE <<>>]

\* datetime.now() > self.activation_time + timedelta(minutes=...)
Past(env, o, minutes) ==
    o.activation_time # <<>> /\ env.now > o.activation_time[1] + minutes

\* the first test of is_active letting an active object through
Disabled_unless_active(cfg, o) == ~cfg.enabled /\ ~o.active

\* not self.config.get('enabled', False)
Disabled(cfg, o) == ~cfg.enabled

\* is_active()
is_active(cfg, o, env, log_ok) ==
    IF Disabled(cfg, o) THEN DvReturn(FALSE, o)
    ELSE IF /\ o.active /\ o.activation_time # <<>>
            /\ cfg.auto_disable_hours > 0
            /\ Past(env, o, 60 * cfg.auto_disable_hours)
    THEN DvAfter(_deactivate(o, log_ok), FALSE)
    ELSE IF _check_magic_file(cfg, env)
    THEN IF ~o.active
         THEN DvAfter(_activate(cfg, "Magic file detected", env.now, log_ok), TRUE)
         ELSE DvReturn(TRUE, o)
    ELSE IF _check_env_var(cfg, env)
    THEN IF ~o.active
         THEN DvAfter(_activate(cfg, "Environment variable set", env.now, log_ok), TRUE)
         ELSE DvReturn(TRUE, o)
    ELSE IF o.active /\ o.activation_method = "key_sequence"
    THEN IF Past(env, o, cfg.duration_minutes)
         THEN DvAfter(_deactivate(o, log_ok), FALSE)
         ELSE DvReturn(TRUE, o)
    ELSE DvReturn(o.active, o)

\* check_key_sequence(recent_keys); matches: the last keys are the
\* configured sequence
check_key_sequence(cfg, o, env, matches, log_ok) ==
    IF ~cfg.key_sequence THEN DvReturn(FALSE, o)
    ELSE IF matches
    THEN DvAfter(_activate(cfg, "Key sequence detected", env.now, log_ok), TRUE)
    ELSE DvReturn(FALSE, o)

\* check_password(typed_text); matches: the text hashes to password_hash
check_password(cfg, o, env, matches, log_ok) ==
    IF ~cfg.password_override THEN DvReturn(FALSE, o)
    ELSE IF matches
    THEN DvAfter(_activate(cfg, "Password override", env.now, log_ok), TRUE)
    ELSE DvReturn(FALSE, o)

DvFrame == UNCHANGED <<deVars, le_inbox, leVars, exVars, ieVars, dmVars,
                       stVars, fuVars, ksVars, msVars, dv_config>>

\* the record of a call: the flag and the method of the object before it,
\* what the triggers and the key-sequence deadline were at the call, and
\* how it ended
DvCall(op, r) ==
    [op |-> op, pre_active |-> dv.active, pre_method |-> dv.activation_method,
     magic |-> _check_magic_file(dv_config, dv_env),
     env |-> _check_env_var(dv_config, dv_env),
     expired |-> Past(dv_env, dv, dv_config.duration_minutes),
     ret |-> r.ret, raised |-> r.raised, log |-> r.log]

\* a call of is_active() by one of the engines; what it returns is the
\* authority the bypass tests see
IsActive(log_ok) ==
    LET r == is_active(dv_config, dv, dv_env, log_ok) IN
    /\ dv' = r.obj
    /\ dv_call' = DvCall("is_active", r)
    /\ dev_authority' = IF r.raised THEN dev_authority ELSE r.ret[1]
    /\ UNCHANGED dv_env
    /\ DvFrame

CheckKeySequence(matches, log_ok) ==
    LET r == check_key_sequence(dv_config, dv, dv_env, matches, log_ok) IN
    /\ dv' = r.obj
    /\ dv_call' = DvCall("check_key_sequence", r)
    /\ UNCHANGED <<dv_env, dev_authority>>
    /\ DvFrame

CheckPassword(matches, log_ok) ==
    LET r == check_password(dv_config, dv, dv_env, matches, log_ok) IN
    /\ dv' = r.obj
    /\ dv_call' = DvCall("check_password", r)
    /\ UNCHANGED <<dv_env, dev_authority>>
    /\ DvFrame

\* d minutes pass
Advance(d) ==
    /\ dv_env.now + d <= MaxNow
    /\ dv_env' = [dv_env EXCEPT !.now = @ + d]
    /\ UNCHANGED <<dv, dv_call, dev_authority>>
    /\ DvFrame

\* the magic file is created (b) or deleted
SetMagicFile(b) ==
    /\ dv_env.magic_file # b
    /\ dv_env' = [dv_env EXCEPT !.magic_file = b]
    /\ UNCHANGED <<dv, dv_call, dev_authority>>
    /\ DvFrame

\* the environment variable is set to "1" (b) or unset
SetEnvVar(b) ==
    /\ dv_env.env_var # b
    /\ dv_env' = [dv_env EXCEPT !.env_var = b]
    /\ UNCHANGED <<dv, dv_call, dev_authority>>
    /\ DvFrame

(* ======================= specifications ======================= *)

ExIdle ==
    /\ ex_stored = [k \in Measurements |-> 0]
    /\ ex_channel = [k \in Measurements |-> 0]
    /\ ex_saves = 0
    /\ ex_call = NoCall

\* InferenceEngine.__init__: _load_models() has loaded the first artifacts
IeIdle ==
    /\ ie_attr = [a \in Attributes |-> 1]
    /\ ie_disk = [m \in Modalities |-> 1]
    /\ ie_lock = FALSE
    /\ rl_pc = 0
    /\ rl_data = 0
    /\ sc_mod = "none"
    /\ sc_seen = <<>>
    /\ ie_call = NoCall

\* SecLyzerDaemon.__init__
DmIdle ==
    /\ dm_phase = "new"
    /\ dm_next = 1
    /\ dm_half = FALSE
    /\ wk_pc = [w \in WorkerSet |-> "none"]
    /\ wk_running = [w \in WorkerSet |-> FALSE]
    /\ wk_sub = [w \in WorkerSet |-> FALSE]
    /\ wk_stopped = [w \in WorkerSet |-> FALSE]
    /\ wk_pending = [w \in WorkerSet |-> 0]
    /\ wk_late = [w \in WorkerSet |-> FALSE]

\* no process_score and no get_status call in flight
StIdle ==
    /\ ps_pc = "idle"
    /\ ps_score = 0
    /\ ps_target = NORMAL
    /\ de_quiet = {Snapshot(NORMAL, NORMAL, 0, <<>>)}
    /\ gs_pc = 0
    /\ gs_seen = <<>>
    /\ gs_call = NoCall

\* InferenceEngine.__init__: empty score histories
FuIdle ==
    /\ ie_scores = [m \in Modalities |-> <<>>]
    /\ if_msgs = 0
    /\ if_call = NoCall

\* KeystrokeExtractor.__init__: an empty buffer
KsIdle ==
    /\ ks_events = <<>>
    /\ ks_call = NoCall

\* MouseExtractor.__init__: an empty buffer
MsIdle ==
    /\ ms_window = [k \in MouseKinds |-> 0]
    /\ ms_call = NoCall

\* DeveloperMode.__init__ with no file at config_path, no magic file and
\* the environment variable unset
DvIdle ==
    /\ dv_config = AbsentConfig
    /\ dv = Inactive
    /\ dv_env = [now |-> 0, magic_file |-> FALSE, env_var |-> FALSE]
    /\ dv_call = NoCall

RestIdle ==
    ExIdle /\ IeIdle /\ DmIdle /\ StIdle /\ FuIdle /\ KsIdle /\ MsIdle /\ DvIdle

DeInit ==
    /\ normal_threshold = DefaultNormal
    /\ monitoring_threshold = DefaultMonitoring
    /\ restricted_threshold = DefaultRestricted
    /\ current_state = NORMAL
    /\ previous_state = NORMAL
    /\ score_history = <<>>
    /\ low_score_count = 0
    /\ de_calls = 0
    /\ dev_authority = FALSE
    /\ de_call = NoCall

LeInit ==
    /\ le_inbox = <<>>
    /\ le_enabled = TRUE
    /\ le_call = NoCall
    /\ RestIdle

\* The Decision Engine on its own: no Locking Engine is listening.
Init ==
    /\ DeInit
    /\ confirmation_count \in 1..MaxConfirm
    /\ db_available \in BOOLEAN
    /\ LeInit
    /\ le_subscribed = FALSE
    /\ enable_lock = TRUE
    /\ enable_notifications = TRUE
    /\ lock_on_restricted = FALSE
    /\ lock_on_lockdown = TRUE

Next ==
    \/ \E score \in Scores, dev \in BOOLEAN, pub_ok \in BOOLEAN, db_ok \in BOOLEAN :
          ProcessScore(score, dev, pub_ok, db_ok)
    \/ \E state \in AuthState, db_ok \in BOOLEAN :
          ForceState(state, "Manual override", db_ok)
    \/ \E b \in BOOLEAN : SetDevMode(b)

Spec == Init /\ [][Next]_vars

\* determine_state as a function of the threshold table and the score.
ThresholdValues == {20, 35, 50, 70, 90}
MaxScore == 100

DetermineInit ==
    /\ normal_threshold \in ThresholdValues
    /\ monitoring_threshold \in ThresholdValues
    /\ restricted_threshold \in ThresholdValues
    /\ normal_threshold > monitoring_threshold
    /\ monitoring_threshold > restricted_threshold
    /\ confirmation_count = 3
    /\ db_available = FALSE
    /\ current_state \in AuthState
    /\ previous_state = NORMAL
    /\ score_history = <<>>
    /\ low_score_count = 0
    /\ de_calls = 0
    /\ dev_authority = FALSE
    /\ de_call = NoCall
    /\ LeInit
    /\ le_subscribed = FALSE
    /\ enable_lock = TRUE
    /\ enable_notifications = TRUE
    /\ lock_on_restricted = FALSE
    /\ lock_on_lockdown = TRUE

DetermineNext == \E score \in 0..MaxScore : DetermineState(score)

SpecDetermine == DetermineInit /\ [][DetermineNext]_vars

\* The Locking Engine called directly, under every configuration.
LockingInit ==
    /\ DeInit
    /\ confirmation_count = 3
    /\ db_available = FALSE
    /\ LeInit
    /\ le_subscribed = FALSE
    /\ enable_lock \in BOOLEAN
    /\ enable_notifications \in BOOLEAN
    /\ lock_on_restricted \in BOOLEAN
    /\ lock_on_lockdown \in BOOLEAN

LockingNext ==
    \/ \E old \in AuthState, new \in AuthState,
          lock_out \in CmdOutcomes, notify_out \in CmdOutcomes :
          HandleStateChange(old, new, lock_out, notify_out)
    \/ \E lock_out \in CmdOutcomes : LockScreen(lock_out)
    \/ \E urgency \in {"low", "normal", "critical"}, notify_out \in CmdOutcomes :
          SendNotification(urgency, notify_out)
    \/ Enable
    \/ Disable
    \/ \E b \in BOOLEAN : SetDevMode(b)

SpecLocking == LockingInit /\ [][LockingNext]_vars

\* The pipeline: the Decision Engine publishes, the Locking Engine's run()
\* loop consumes, and the operator enables and disables the Locking Engine.
SystemInit ==
    /\ DeInit
    /\ confirmation_count \in 1..MaxConfirm
    /\ db_available = TRUE
    /\ LeInit
    /\ le_subscribed = TRUE
    /\ enable_lock = TRUE
    /\ enable_notifications = TRUE
    /\ lock_on_restricted \in BOOLEAN
    /\ lock_on_lockdown \in BOOLEAN

SystemNext ==
    \/ \E score \in Scores : ProcessScore(score, FALSE, TRUE, TRUE)
    \/ \E lock_out \in CmdOutcomes, notify_out \in CmdOutcomes :
          LockingOnMessage(lock_out, notify_out)
    \/ \E lock_out \in CmdOutcomes : LockScreen(lock_out)
    \/ \E notify_out \in CmdOutcomes : SendNotification("normal", notify_out)
    \/ Enable
    \/ Disable

SpecSystem == SystemInit /\ [][SystemNext]_vars

\* The pipeline with an administrator forcing states: force_state calls
\* between the scores, the Locking Engine's run() loop consuming.
ForcedInit ==
    /\ DeInit
    /\ confirmation_count = 1
    /\ db_available = FALSE
    /\ LeInit
    /\ le_subscribed = TRUE
    /\ enable_lock = TRUE
    /\ enable_notifications = TRUE
    /\ lock_on_restricted = FALSE
    /\ lock_on_lockdown = TRUE

ForcedNext ==
    \/ \E score \in Scores : ProcessScore(score, FALSE, TRUE, TRUE)
    \/ \E state \in AuthState : ForceState(state, "Manual override", TRUE)
    \/ \E lock_out \in {"ok", "error"} : LockingOnMessage(lock_out, "ok")

SpecForced == ForcedInit /\ [][ForcedNext]_vars

\* the Decision Engine and the Locking Engine as constructed, with no call made
CoreIdle ==
    /\ DeInit
    /\ confirmation_count = 3
    /\ db_available = FALSE
    /\ le_inbox = <<>>
    /\ le_enabled = TRUE
    /\ le_call = NoCall
    /\ le_subscribed = FALSE
    /\ enable_lock = TRUE
    /\ enable_notifications = TRUE
    /\ lock_on_restricted = FALSE
    /\ lock_on_lockdown = TRUE

\* The extractors' save step, under every outcome of the write and the publish.
SaveInit == CoreIdle /\ RestIdle

SaveNext ==
    \E kind \in Measurements, attempts \in Attempts, pub_ok \in BOOLEAN :
        SaveFeatures(kind, attempts, pub_ok)

SpecSave == SaveInit /\ [][SaveNext]_vars

\* reload_models() on one thread while the feature loop scores on another.
ReloadInit == CoreIdle /\ RestIdle

ReloadNext ==
    \/ \E mod \in Modalities : NewArtifact(mod)
    \/ ReloadBegin
    \/ \E load_ok \in BOOLEAN : ReloadLoad(load_ok)
    \/ ReloadAssign
    \/ ReloadEnd
    \/ \E mod \in Modalities : ScoreBegin(mod)
    \/ ScoreRead

SpecReload == ReloadInit /\ [][ReloadNext]_vars

\* The daemon's start() and stop() against its three worker threads.
DaemonInit == CoreIdle /\ RestIdle

DaemonNext ==
    \/ DaemonStart
    \/ StartThread
    \/ DaemonStop
    \/ StopFlag
    \/ StopUnsubscribe
    \/ \E w \in WorkerSet : WorkerSubscribe(w)
    \/ \E w \in WorkerSet : WorkerSetRunning(w)
    \/ \E w \in WorkerSet : Deliver(w)
    \/ \E w \in WorkerSet : WorkerMessage(w)
    \/ \E w \in WorkerSet : WorkerListenEnds(w)

SpecDaemon == DaemonInit /\ [][DaemonNext]_vars

\* get_status on one thread while the decision thread runs process_score.
StatusInit ==
    /\ DeInit
    /\ confirmation_count \in 1..MaxConfirm
    /\ db_available = TRUE
    /\ LeInit
    /\ le_subscribed = FALSE
    /\ enable_lock = TRUE
    /\ enable_notifications = TRUE
    /\ lock_on_restricted = FALSE
    /\ lock_on_lockdown = TRUE

StatusNext ==
    \/ \E score \in Scores, dev \in BOOLEAN : PsAppend(score, dev)
    \/ PsCount
    \/ PsPrevious
    \/ PsCurrent
    \/ GsBegin
    \/ GsRead

SpecStatus == StatusInit /\ [][StatusNext]_vars

\* The inference loop handling feature messages while developer mode
\* switches on and off.
InferenceInit == CoreIdle /\ RestIdle

InferenceNext ==
    \/ \E mod \in Modalities, msg \in FeatureMessages, raw \in RawScores,
          predict_ok \in BOOLEAN, pub_ok \in BOOLEAN :
          ProcessFeatures(mod, msg, raw, predict_ok, pub_ok)
    \/ \E b \in BOOLEAN : SetDevMode(b)

SpecInference == InferenceInit /\ [][InferenceNext]_vars

\* the delays (in tenths of a second) and factors a function is wrapped with
InitialDelays == {5, 10}
BackoffFactors == {1, 2, 3}

\* Wrapped functions called under every run of outcomes of up to MaxRetry
\* invocations, max_attempts = 0 and -1 included.
RetryInit == CoreIdle /\ RestIdle

RetryNext ==
    \E max_attempts \in (0 - 1)..MaxRetry :
        \* outcomes: what the function would do at each invocation (one
        \* entry at least, also when the decorator allows no attempt)
        \E outcomes \in [1..(IF max_attempts < 1 THEN 1 ELSE max_attempts)
                            -> Invocations],
           initial_delay \in InitialDelays, backoff_factor \in BackoffFactors :
            RetryCall(outcomes, max_attempts, initial_delay, backoff_factor)

SpecRetry == RetryInit /\ [][RetryNext]_vars

\* The Decision Engine's process_scores loop fed every kind of message,
\* with Redis and the database working or failing, while developer mode
\* switches on and off.
ScoresInit ==
    /\ DeInit
    /\ confirmation_count \in 1..MaxConfirm
    /\ db_available \in BOOLEAN
    /\ LeInit
    /\ le_subscribed = FALSE
    /\ enable_lock = TRUE
    /\ enable_notifications = TRUE
    /\ lock_on_restricted = FALSE
    /\ lock_on_lockdown = TRUE

ScoresNext ==
    \/ \E msg \in ScoreMessages, score \in Scores, dev \in BOOLEAN,
          pub_ok \in BOOLEAN, db_ok \in BOOLEAN :
          ProcessScoresMessage(msg, score, dev, pub_ok, db_ok)
    \/ \E b \in BOOLEAN : SetDevMode(b)

SpecScores == ScoresInit /\ [][ScoresNext]_vars

\* the weight triples get_fused_score is called with
FusionWeights == {DefaultWeights} \cup [Modalities -> {0 - 100, 0, 100}]

\* The scoring, smoothing and fusion functions called directly, on an
\* engine whose models all loaded or all failed to load.
FusionInit ==
    /\ CoreIdle
    /\ ExIdle /\ DmIdle /\ StIdle /\ FuIdle /\ KsIdle /\ MsIdle /\ DvIdle
    /\ \E loaded \in {0, 1} : ie_attr = [a \in Attributes |-> loaded]
    /\ ie_disk = [m \in Modalities |-> 1]
    /\ ie_lock = FALSE
    /\ rl_pc = 0
    /\ rl_data = 0
    /\ sc_mod = "none"
    /\ sc_seen = <<>>
    /\ ie_call = NoCall

\* One DeveloperMode object under every configuration of DevConfigs, its
\* methods called while time passes and the triggers come and go.
Durations == {10, 60}

DevModeInit ==
    /\ CoreIdle
    /\ ExIdle /\ IeIdle /\ DmIdle /\ StIdle /\ FuIdle /\ KsIdle /\ MsIdle
    /\ dv_config \in DevConfigs
    /\ dv = Inactive
    /\ dv_env = [now |-> 0, magic_file |-> FALSE, env_var |-> FALSE]
    /\ dv_call = NoCall

DevModeNext ==
    \/ \E log_ok \in BOOLEAN : IsActive(log_ok)
    \/ \E matches \in BOOLEAN, log_ok \in BOOLEAN : CheckKeySequence(matches, log_ok)
    \/ \E matches \in BOOLEAN, log_ok \in BOOLEAN : CheckPassword(matches, log_ok)
    \/ \E d \in Durations : Advance(d)
    \/ \E b \in BOOLEAN : SetMagicFile(b)
    \/ \E b \in BOOLEAN : SetEnvVar(b)

SpecDevMode == DevModeInit /\ [][DevModeNext]_vars

\* The whole pipeline with no model artifact in models_dir: the
\* Inference Engine handles feature messages, the Decision Engine decides
\* on the fused scores it publishes, the Locking Engine is subscribed.
NeutralInit ==
    /\ DeInit
    /\ confirmation_count = 3
    /\ db_available \in BOOLEAN
    /\ le_inbox = <<>>
    /\ le_enabled = TRUE
    /\ le_call = NoCall
    /\ le_subscribed = TRUE
    /\ enable_lock = TRUE
    /\ enable_notifications = TRUE
    /\ lock_on_restricted = FALSE
    /\ lock_on_lockdown = TRUE
    /\ ExIdle /\ DmIdle /\ StIdle /\ FuIdle /\ KsIdle /\ MsIdle /\ DvIdle
    /\ ie_attr = [a \in Attributes |-> 0]
    /\ ie_disk = [m \in Modalities |-> 1]
    /\ ie_lock = FALSE
    /\ rl_pc = 0
    /\ rl_data = 0
    /\ sc_mod = "none"
    /\ sc_seen = <<>>
    /\ ie_call = NoCall

NeutralNext ==
    \/ \E mod \in Modalities, msg \in FeatureMessages, raw \in RawScores,
          predict_ok \in BOOLEAN, pub_ok \in BOOLEAN :
          ProcessFeatures(mod, msg, raw, predict_ok, pub_ok)
    \/ \E pub_ok \in BOOLEAN, db_ok \in BOOLEAN : DecideOnFused(pub_ok, db_ok)

SpecNeutral == NeutralInit /\ [][NeutralNext]_vars

FusionNext ==
    \/ \E mod \in Modalities, raw \in RawScores, predict_ok \in BOOLEAN :
          if_msgs < MaxFeatures /\ ScoreCall(mod, raw, predict_ok)
    \/ SmoothedCall
    \/ \E w \in FusionWeights : FusedCall(w)

SpecFusion == FusionInit /\ [][FusionNext]_vars

\* The two score histories filled past their capacity: one modality of the
\* Inference Engine scored MaxScored times, or the Decision Engine fed
\* MaxCalls scores.
HistoryInit == Init /\ db_available = FALSE

HistoryNext ==
    \/ \E mod \in Modalities, raw \in {Points(0), Points(100)}, predict_ok \in BOOLEAN :
          /\ de_calls = 0
          /\ if_msgs < MaxScored
          /\ \A m \in Modalities \ {mod} : ie_scores[m] = <<>>
          /\ ScoreCall(mod, raw, predict_ok)
    \/ \E score \in Scores :
          if_msgs = 0 /\ ProcessScore(score, FALSE, TRUE, TRUE)

SpecHistory == HistoryInit /\ [][HistoryNext]_vars

\* The keystroke extractor fed with every stream of events up to MaxWindow.
KeystrokeInit == CoreIdle /\ RestIdle

KeystrokeNext ==
    \E ev \in KeyEvents, due \in BOOLEAN, age \in {0, KeystrokeWindowMs} :
        KeystrokeEvent(ev, due, age)

SpecKeystroke == KeystrokeInit /\ [][KeystrokeNext]_vars

\* The mouse extractor fed with every mix of events up to MaxMouse.
MouseInit == CoreIdle /\ RestIdle

MouseNext ==
    \/ \E kind \in MouseKinds, due \in BOOLEAN : MouseEvent(kind, due)
    \/ \E kind \in MouseKinds : MouseExpire(kind)

SpecMouse == MouseInit /\ [][MouseNext]_vars

\* The two extractors' loops fed every kind of message of the raw-events
\* channel; a behaviour follows one extractor.
RawEventsInit == CoreIdle /\ RestIdle

RawEventsNext ==
    \/ \E msg \in KeystrokeMessages,
          ev \in {e \in KeyEvents : e.dt = 100}, due \in BOOLEAN :
          /\ ms_call = NoCall
          /\ KeystrokeMessage(msg, ev, due, 0)
    \/ \E msg \in MouseMessages, kind \in {"move", "click"}, due \in BOOLEAN :
          /\ ks_call = NoCall
          /\ MouseMessage(msg, kind, due)

SpecRawEvents == RawEventsInit /\ [][RawEventsNext]_vars

(* ======================= properties ======================= *)

\* the trust order of the specification: NORMAL > MONITORING > RESTRICTED > LOCKDOWN
TrustRank == [s \in AuthState |->
                 CASE s = NORMAL -> 3
                   [] s = MONITORING -> 2
                   [] s = RESTRICTED -> 1
                   [] s = LOCKDOWN -> 0]

\* this step is a process_score call
ProcessStep == de_calls' = de_calls + 1

\* this step is a process_score call that was not bypassed by developer mode
ScoredStep == ProcessStep /\ ~de_call'.bypass

\* C1: with developer mode inactive, a process_score call whose target has
\* lower trust than current_state changes current_state only if the call
\* brings low_score_count to at least confirmation_count.
C1_DegradationNeedsConfirmation ==
    [][(/\ ScoredStep
        /\ ~de_call'.raised
        /\ TrustRank[de_call'.target] < TrustRank[current_state]
        /\ current_state' # current_state)
       => low_score_count' >= confirmation_count]_vars

\* C2: with developer mode inactive, one score >= normal_threshold received
\* in RESTRICTED, LOCKDOWN or MONITORING (a target of higher trust than
\* current_state) yields current_state = NORMAL on that same call, with
\* low_score_count = 0.
C2_ImprovementImmediate ==
    [][(/\ ScoredStep
        /\ ~de_call'.raised
        /\ de_call'.score >= normal_threshold
        /\ current_state \in {RESTRICTED, LOCKDOWN, MONITORING})
       => (current_state' = NORMAL /\ low_score_count' = 0)]_vars

\* C3: determine_state returns NORMAL iff score >= normal, MONITORING iff
\* monitoring <= score < normal, RESTRICTED iff restricted <= score <
\* monitoring, LOCKDOWN iff score < restricted, and changes no engine state.
C3_DetermineStateBands ==
    [][de_call'.op = "determine_state" =>
        LET s == de_call'.score
            t == de_call'.target
        IN /\ (t = NORMAL) <=> (s >= normal_threshold)
           /\ (t = MONITORING) <=> (monitoring_threshold <= s /\ s < normal_threshold)
           /\ (t = RESTRICTED) <=> (restricted_threshold <= s /\ s < monitoring_threshold)
           /\ (t = LOCKDOWN) <=> (s < restricted_threshold)
           /\ UNCHANGED <<current_state, previous_state, low_score_count,
                          score_history, normal_threshold, monitoring_threshold,
                          restricted_threshold>>]_vars

\* a score on the lower boundary of the monitoring band was classified
C3_Witness ==
    /\ de_call.op = "determine_state"
    /\ de_call.score = monitoring_threshold
    /\ de_call.target = MONITORING

\* C4: from NORMAL, a score below restricted_threshold leaves current_state
\* NORMAL while it brings low_score_count to less than confirmation_count
\* and makes it LOCKDOWN on the call that brings the count to
\* confirmation_count (the n-th consecutive one on a fresh engine); from
\* LOCKDOWN one score >= normal_threshold makes current_state NORMAL on that
\* call, with low_score_count = 0 and action "allow".
C4_LockdownAfterNThenRecovery ==
    [][ScoredStep =>
        /\ (current_state = NORMAL /\ de_call'.score < restricted_threshold) =>
              /\ low_score_count' = low_score_count + 1
              /\ low_score_count' < confirmation_count => current_state' = NORMAL
              /\ low_score_count' >= confirmation_count => current_state' = LOCKDOWN
        /\ (current_state = LOCKDOWN /\ de_call'.score >= normal_threshold) =>
              /\ current_state' = NORMAL
              /\ low_score_count' = 0
              /\ ~de_call'.raised =>
                    /\ Len(de_call'.decision) = 1
                    /\ de_call'.decision[1].action = "allow"]_vars

\* a fresh engine went NORMAL -> LOCKDOWN on its n-th low score and back to
\* NORMAL on the next, high one
C4_Witness ==
    /\ de_calls = confirmation_count + 1
    /\ confirmation_count >= 2
    /\ score_history = [i \in 1..de_calls |->
                           IF i <= confirmation_count THEN 30 ELSE 70]
    /\ current_state = NORMAL
    /\ previous_state = LOCKDOWN
    /\ low_score_count = 0
    /\ de_call.op = "process_score"
    /\ ~de_call.bypass
    /\ Len(de_call.decision) = 1
    /\ de_call.decision[1].action = "allow"

\* C5: a process_score call made with dev_mode = True, or while the
\* developer-mode authority reports active, returns {allow, normal, 100,
\* dev_mode true, BYPASS reason}, leaves current_state, previous_state and
\* low_score_count unchanged and publishes no StateChangeEvent.
C5_DevModeBypass ==
    [][(ProcessStep /\ (de_call'.dev_param \/ dev_authority)) =>
        /\ de_call'.decision =
              <<[action |-> "allow", state |-> "normal", score |-> 100,
                 reason |-> "Developer mode active (BYPASS)", dev_mode |-> TRUE]>>
        /\ UNCHANGED <<current_state, previous_state, low_score_count, le_inbox>>
        /\ de_call'.published = <<>>
        /\ ~de_call'.raised]_vars

\* a lockdown-range score was bypassed on the authority's word while the
\* engine was in LOCKDOWN with a running low-score count
C5_Witness ==
    /\ de_call.op = "process_score"
    /\ de_call.bypass
    /\ ~de_call.dev_param
    /\ de_call.score < restricted_threshold
    /\ current_state = LOCKDOWN
    /\ low_score_count > 0

\* C6: when publishing succeeds, a process_score call publishes on
\* state_change iff current_state after the call differs from current_state
\* before it, and then exactly one event with old_state = the state before,
\* new_state = the state after and the triggering score.
C6_EventIffStateChanged ==
    [][(ProcessStep /\ ~de_call'.raised) =>
        /\ (de_call'.published # <<>>) <=> (current_state' # current_state)
        /\ (current_state' # current_state) =>
              de_call'.published =
                 <<[old_state |-> current_state, new_state |-> current_state',
                    score |-> de_call'.score]>>]_vars

\* a confirmed degradation NORMAL -> LOCKDOWN was published
C6_Witness ==
    /\ de_call.op = "process_score"
    /\ Len(de_call.published) = 1
    /\ de_call.published[1].old_state = NORMAL
    /\ de_call.published[1].new_state = LOCKDOWN
    /\ current_state = LOCKDOWN

\* C7: a Decision returned with developer mode inactive carries the engine's
\* current_state after the call and the action that state maps to.
C7_DecisionReflectsCurrentState ==
    (de_call.op = "process_score" /\ ~de_call.bypass /\ de_call.decision # <<>>) =>
        /\ de_call.decision[1].state = current_state
        /\ de_call.decision[1].action =
              (CASE current_state = NORMAL -> "allow"
                 [] current_state = MONITORING -> "allow_log"
                 [] current_state = RESTRICTED -> "restrict"
                 [] current_state = LOCKDOWN -> "lockdown")

\* an unconfirmed lockdown-range score: the Decision reports NORMAL, not the target
C7_Witness ==
    /\ de_call.op = "process_score"
    /\ ~de_call.bypass
    /\ de_call.target = LOCKDOWN
    /\ current_state = NORMAL
    /\ Len(de_call.decision) = 1
    /\ de_call.decision[1].state = NORMAL
    /\ de_call.decision[1].action = "allow"

\* the state of the engine right after a force_state call
ForcedState ==
    /\ current_state = de_call.target
    /\ previous_state = de_call.old_state

HandledLive(c) ==
    /\ c.op \in {"handle_state_change", "run"}
    /\ c.pre_enabled
    /\ ~c.pre_dev

\* C9: for an enabled Locking Engine with developer mode inactive,
\* handle_state_change invokes lock_screen iff lock_on_lockdown for lockdown
\* and iff lock_on_restricted for restricted, never for monitoring or normal;
\* it sends one notification (critical for lockdown) for lockdown,
\* restricted, monitoring and for normal coming from a non-normal state, and
\* does nothing for normal -> normal.
C9_StateToActions ==
    HandledLive(le_call) =>
        /\ le_call.new_state = LOCKDOWN =>
              /\ (le_call.lock_calls = 1) <=> lock_on_lockdown
              /\ le_call.notify_calls = <<"critical">>
        /\ le_call.new_state = RESTRICTED =>
              /\ (le_call.lock_calls = 1) <=> lock_on_restricted
              /\ Len(le_call.notify_calls) = 1
        /\ (\/ le_call.new_state = MONITORING
            \/ (le_call.new_state = NORMAL /\ le_call.old_state # NORMAL)) =>
              /\ le_call.lock_calls = 0
              /\ Len(le_call.notify_calls) = 1
              /\ "lock" \notin {le_call.commands[i] : i \in DOMAIN le_call.commands}
        /\ (le_call.new_state = NORMAL /\ le_call.old_state = NORMAL) =>
              /\ le_call.lock_calls = 0
              /\ le_call.notify_calls = <<>>
              /\ le_call.commands = <<>>
        /\ le_call.lock_calls \in {0, 1}

\* the scenario of the specification: lock_on_restricted = false,
\* lock_on_lockdown = true; a change to RESTRICTED notified without locking
C9_Witness ==
    /\ HandledLive(le_call)
    /\ ~lock_on_restricted
    /\ lock_on_lockdown
    /\ enable_lock
    /\ enable_notifications
    /\ le_call.new_state = RESTRICTED
    /\ le_call.lock_calls = 0
    /\ le_call.commands = <<"notify-send">>

\* C10: while the Locking Engine is disabled no operation of it executes an
\* external command; enabling, disabling and handling events leave the
\* Decision Engine's state untouched, and the Decision Engine publishes and
\* delivers its StateChangeEvent for every state change whether or not the
\* Locking Engine is enabled.
C10_DisabledRunsNoCommand ==
    [][/\ (le_call'.op # "none" /\ ~le_call'.pre_enabled) =>
              (le_call'.commands = <<>> /\ le_call'.observed = <<>>)
       /\ (le_call' # le_call \/ le_enabled' # le_enabled) => UNCHANGED deVars
       /\ (ProcessStep /\ current_state' # current_state) =>
              /\ de_call'.published =
                    <<[old_state |-> current_state, new_state |-> current_state',
                       score |-> de_call'.score]>>
              /\ le_inbox' = Append(le_inbox, de_call'.published[1])
              /\ UNCHANGED le_enabled]_vars

\* a lockdown event was consumed by run() while the engine was disabled: no
\* command ran, and the Decision Engine is in LOCKDOWN all the same
C10_Witness ==
    /\ le_call.op = "run"
    /\ ~le_call.pre_enabled
    /\ le_call.new_state = LOCKDOWN
    /\ le_call.commands = <<>>
    /\ ~le_enabled
    /\ current_state = LOCKDOWN
    /\ de_call.op = "process_score"
    /\ Len(de_call.decision) = 1
    /\ de_call.decision[1].action = "lockdown"

\* C11: while developer mode is active no Locking Engine operation
\* (handle_state_change, lock_screen, send_notification) executes an
\* external command.
C11_DevModeRunsNoCommand ==
    (le_call.op # "none" /\ le_call.pre_dev) => le_call.commands = <<>>

\* the lock command ran and ended with the given outcome
LockRan(c) == c.op = "lock_screen" /\ c.commands = <<"lock">>

\* C12: when the lock command ran, lock_screen returns True and reports
\* success: True only when the command completed with exit status 0; when it
\* timed out, raised or exited non-zero it returns False and reports
\* ("lock", {success: False}) to the action observers.
C12_LockSuccessOnlyOnExitZero ==
    LockRan(le_call) =>
        /\ le_call.ret <=> (le_call.outcome = "ok")
        /\ le_call.observed =
              <<[action |-> "lock", success |-> (le_call.outcome = "ok")]>>

\* notify-send ran and failed by raising or timing out
NotifyFailed(c) ==
    /\ c.op = "send_notification"
    /\ c.commands = <<"notify-send">>
    /\ c.outcome \in {"timeout", "error"}

\* C13: when the notification command fails (exception or timeout),
\* send_notification returns False and the failure is reported to the action
\* observers, as a lock-command failure is.
C13_NotifyFailureReported ==
    NotifyFailed(le_call) =>
        /\ ~le_call.ret
        /\ le_call.observed # <<>>
        /\ \A i \in DOMAIN le_call.observed : ~le_call.observed[i].success

\* C14: whenever an extractor saves a computed vector (or transition), the
\* vector is published on its features channel even if the time-series
\* write fails after its retries, and the loop goes on.
C14_PublishedDespiteWriteFailure ==
    (ex_call.op = "save" /\ ex_call.pub_ok) =>
        /\ ex_call.published
        /\ ex_call.loop_alive

\* C15: a scoring call running concurrently with reload_models() builds its
\* prediction from one artifact only: the model, the feature-name list and
\* the scaler it used all come from the same artifact version.
C15_ScoringSeesOneArtifact ==
    (ie_call.op = "score" /\ ie_call.result = "scored") =>
        \A i, j \in DOMAIN ie_call.used : ie_call.used[i] = ie_call.used[j]

\* C16: in every interleaving of start() and stop(), once stop() has been
\* called on a worker its _running flag stays False and the worker handles
\* no message afterwards.
C16_StoppedWorkerStaysStopped ==
    \A w \in WorkerSet :
        wk_stopped[w] => (~wk_running[w] /\ ~wk_late[w])

\* C17: a status returned by get_status while process_score is executing on
\* the decision thread equals the engine's (current_state, previous_state,
\* low_score_count, recent_scores) at some instant between two calls.
C17_StatusIsQuiescentSnapshot ==
    gs_call.op = "get_status" => gs_call.status \in de_quiet

\* C18: while developer mode is active, every message the Inference Engine
\* publishes on scores:fused has fused_score = 100 and dev_mode = true.
C18_DevModeFusedIsHundred ==
    (if_call.op = "process_features" /\ if_call.is_dev_mode) =>
        \A i \in DOMAIN if_call.fused :
            /\ if_call.fused[i].fused_score = Points(100)
            /\ if_call.fused[i].dev_mode

\* the window of test_extract_features_basic: a key pressed and released
\* ten times
RECURSIVE TypedKeys(_)
TypedKeys(n) ==
    IF n = 0 THEN <<>>
    ELSE TypedKeys(n - 1) \o
         <<[timestamp |-> 200 * n, key |-> "a", event_type |-> "press", dev_mode |-> FALSE],
           [timestamp |-> 200 * n + 100, key |-> "a", event_type |-> "release", dev_mode |-> FALSE]>>

FullKeystrokeKeys == DOMAIN extract_features(TypedKeys(10), 2100)[1]

\* C19: extract_features returns None when the window holds fewer than 10
\* events, and for every window of at least 10 events a vector with the
\* same key set, whatever the window's content.
C19_KeystrokeKeySetFixed ==
    ks_call.op = "extract" =>
        /\ ks_call.recent < KeystrokeMinEvents => ks_call.features = <<>>
        /\ ks_call.recent >= KeystrokeMinEvents =>
               /\ ks_call.features # <<>>
               /\ DOMAIN ks_call.features[1] = FullKeystrokeKeys

MouseKeys ==
    {<<"move", i>> : i \in 0..19} \cup {<<"click", i>> : i \in 0..9}
    \cup {<<"scroll", i>> : i \in 0..7} \cup {<<"dev_mode">>}

AllZero(f, name, hi) == \A i \in 0..hi : f[<<name, i>>] = ZERO

ScoreStep == if_msgs' = if_msgs + 1 /\ if_call'.op = "score"

\* C21: a scoring call on a modality without a model, or whose prediction
\* raises, returns exactly 50 and stores nothing: the histories, hence the
\* smoothed and fused scores, are as before the call; no call raises.
C21_NeutralScoreStoresNothing ==
    [][ScoreStep =>
          /\ if_call'.returned # <<>>
          /\ (~if_call'.model_loaded \/ ~if_call'.predict_ok) =>
                 /\ if_call'.returned = <<NeutralScore>>
                 /\ ie_scores' = ie_scores
                 /\ get_smoothed_scores(ie_scores') = get_smoothed_scores(ie_scores)
                 /\ get_fused_score(ie_scores', DefaultWeights)
                        = get_fused_score(ie_scores, DefaultWeights)]_vars

C21_Witness ==
    /\ if_call.op = "score"
    /\ if_call.model_loaded
    /\ ~if_call.predict_ok
    /\ if_call.held > 0
    /\ if_call.returned = <<NeutralScore>>

\* the last k entries of s
LastK(s, k) == IF Len(s) <= k THEN s ELSE SubSeq(s, Len(s) - k + 1, Len(s))

\* C22: each modality's history holds at most 10 entries, the most recent
\* successfully computed scores in arrival order; the Decision Engine's
\* score_history holds at most 2 * confirmation_count entries.
C22_HistoriesBounded ==
    [][/\ \A m \in Modalities : Len(ie_scores'[m]) <= 10
       /\ Len(score_history') <= 2 * confirmation_count'
       /\ ScoreStep =>
              \A m \in Modalities :
                  ie_scores'[m] =
                      IF m = if_call'.mod /\ if_call'.model_loaded /\ if_call'.predict_ok
                      THEN LastK(Append(ie_scores[m], if_call'.raw), 10)
                      ELSE ie_scores[m]]_vars

C22_Witness ==
    /\ if_call.op = "score"
    /\ if_call.model_loaded
    /\ if_call.predict_ok
    /\ if_call.held = 10
    /\ Len(ie_scores[if_call.mod]) = 10
    /\ ie_scores[if_call.mod][10] = if_call.raw

SeqMin(s) == CHOOSE x \in {s[i] : i \in DOMAIN s} : \A i \in DOMAIN s : x <= s[i]
SeqMax(s) == CHOOSE x \in {s[i] : i \in DOMAIN s} : \A i \in DOMAIN s : x >= s[i]

\* r_1 = h[1], r_k = 0.3 * h[k] + 0.7 * r_(k-1), each product rounded
RECURSIVE Fold(_, _)
Fold(h, k) ==
    IF k = 1 THEN h[1]
    ELSE RoundDiv(3 * h[k], 10) + RoundDiv(7 * Fold(h, k - 1), 10)

\* what get_smoothed_scores has just returned, against the histories
SmoothedIs(hist, ret) ==
    \A m \in Modalities :
        ret[m] = IF hist[m] = <<>> THEN NeutralScore ELSE Fold(hist[m], Len(hist[m]))

\* C23 as stated: the smoothed score of a modality lies between the minimum
\* and the maximum of its retained scores.
C23_SmoothedWithinRange ==
    if_call.op = "get_smoothed_scores" =>
        \A m \in Modalities :
            ie_scores[m] # <<>> =>
                /\ SeqMin(ie_scores[m]) <= if_call.returned[1][m]
                /\ if_call.returned[1][m] <= SeqMax(ie_scores[m])

\* C23: get_smoothed_scores returns 50 for an empty history and the left
\* fold from oldest to newest otherwise, within rounding of the range of
\* the retained scores (a step adds at most one unit of rounding and damps
\* what it inherits by 0.7: less than 4 units in all), and leaves the
\* histories as they were.
C23_SmoothedIsLeftFold ==
    [][(if_call'.op = "get_smoothed_scores" /\ if_msgs' = if_msgs) =>
          /\ ie_scores' = ie_scores
          /\ SmoothedIs(ie_scores, if_call'.returned[1])
          /\ \A m \in Modalities :
                 ie_scores[m] # <<>> =>
                     /\ SeqMin(ie_scores[m]) - 4 <= if_call'.returned[1][m]
                     /\ if_call'.returned[1][m] <= SeqMax(ie_scores[m]) + 4]_vars

C23_Witness ==
    /\ if_call.op = "get_smoothed_scores"
    /\ \E m \in Modalities :
           /\ Len(ie_scores[m]) >= 2
           /\ ie_scores[m][1] # ie_scores[m][2]
           /\ if_call.returned[1][m] # ie_scores[m][Len(ie_scores[m])]

\* C24: whenever get_fused_score returns, the result lies between the
\* least and the greatest smoothed score and between 0 and 100, and with
\* all the weight on one modality it is that modality's smoothed score.
C24_FusedInHull ==
    (if_call.op = "get_fused_score" /\ if_call.returned # <<>>) =>
        LET smoothed == get_smoothed_scores(ie_scores)
            fused == if_call.returned[1]
        IN  /\ \A m \in Modalities :
                   (\A o \in Modalities \ {m} : if_call.weights[o] = 0)
                       => fused = smoothed[m]
            /\ \E m \in Modalities : smoothed[m] <= fused
            /\ \E m \in Modalities : fused <= smoothed[m]
            /\ 0 <= fused
            /\ fused <= Points(100)

\* C25: for a feature message whose publishes succeed, a fused score is
\* published exactly when a score of the message's modality is, one of
\* each and the modality score first; an undecodable message publishes
\* neither and the loop goes on.
C25_FusedIffModalityScore ==
    (if_call.op = "process_features" /\ if_call.pub_ok) =>
        /\ if_call.published \in
               {<<>>, <<"seclyzer:scores:" \o if_call.mod, "seclyzer:scores:fused">>}
        /\ if_call.msg = "undecodable" => if_call.published = <<>>
        /\ if_call.loop_alive

\* C29: a process_score call writes an audit record only if current_state
\* after the call differs from current_state before it.
C29_AuditOnlyOnStateChange ==
    [][(ProcessStep /\ de_call'.audit # <<>>) =>
          current_state' # current_state]_vars

\* an iteration of the process_scores loop has just ended
LoopStep == de_calls' = de_calls + 1 /\ de_call'.op = "process_scores"

\* C26: every message that is decoded and processed yields exactly one
\* Decision on the decisions channel (the bypass Decision under developer
\* mode); a message that cannot be decoded or processed yields none and
\* leaves current_state and low_score_count as they were; the loop goes on.
C26_OneDecisionPerMessage ==
    [][LoopStep =>
          /\ de_call'.loop_alive
          /\ IF de_call'.failed
             THEN /\ de_call'.sent = <<>>
                  /\ current_state' = current_state
                  /\ low_score_count' = low_score_count
             ELSE /\ Len(de_call'.sent) = 1
                  /\ de_call'.sent[1].state =
                         (IF de_call'.bypass THEN NORMAL ELSE current_state')]_vars

\* the number of invocations in a trace of the wrapper
RECURSIVE Invoked(_)
Invoked(trace) ==
    IF trace = <<>> THEN 0
    ELSE (IF Head(trace) = "call" THEN 1 ELSE 0) + Invoked(Tail(trace))

RECURSIVE Pow(_, _)
Pow(b, n) == IF n = 0 THEN 1 ELSE b * Pow(b, n - 1)

\* C27: the wrapped function is invoked at most max_attempts times; when
\* its k-th invocation is the first that does not raise, the wrapper
\* returns that invocation's result after exactly k invocations.
C27_ReturnsAtFirstSuccess ==
    (ex_call.op = "wrapper" /\ ex_call.max_attempts >= 1) =>
        /\ Invoked(ex_call.trace) <= ex_call.max_attempts
        /\ \A k \in 1..ex_call.max_attempts :
               (/\ ex_call.outcomes[k] = "return"
                /\ \A j \in 1..(k - 1) : ex_call.outcomes[j] = "raise") =>
                   /\ ex_call.returned = <<k>>
                   /\ ex_call.raised = <<>>
                   /\ Invoked(ex_call.trace) = k
                   /\ ex_call.trace[Len(ex_call.trace)] = "call"

C27_Witness ==
    /\ ex_call.op = "wrapper"
    /\ ex_call.max_attempts = 3
    /\ ex_call.outcomes = <<"raise", "raise", "return">>
    /\ ex_call.returned = <<3>>

\* every invocation raised an exception the wrapper retries
AllRaised ==
    /\ ex_call.op = "wrapper"
    /\ ex_call.max_attempts >= 1
    /\ \A j \in 1..ex_call.max_attempts : ex_call.outcomes[j] = "raise"

\* C28: when all max_attempts invocations raise a retried exception, the
\* wrapper raises the last invocation's exception after exactly
\* max_attempts invocations and max_attempts - 1 sleeps, the j-th lasting
\* initial_delay * backoff_factor^(j-1), and none after the last failure.
C28_RaisesLastAfterAllAttempts ==
    AllRaised =>
        /\ ex_call.raised = <<ex_call.max_attempts>>
        /\ ex_call.returned = <<>>
        /\ Invoked(ex_call.trace) = ex_call.max_attempts
        /\ Len(ex_call.sleeps) = ex_call.max_attempts - 1
        /\ Len(ex_call.trace) = 2 * ex_call.max_attempts - 1
        /\ \A j \in 1..Len(ex_call.sleeps) :
               ex_call.sleeps[j] = ex_call.initial_delay * Pow(ex_call.backoff_factor, j - 1)
        /\ ex_call.trace[Len(ex_call.trace)] = "call"

C28_Witness ==
    /\ AllRaised
    /\ ex_call.max_attempts = 3
    /\ ex_call.backoff_factor = 2
    /\ ex_call.sleeps = <<ex_call.initial_delay, 2 * ex_call.initial_delay>>

\* what C30 says of one iteration of an extractor's loop, given the record
\* of the iteration and whether the buffer is as it was and one longer
DropsOrAppends(call, same, grown) ==
    /\ call.loop_alive
    /\ call.msg # "event" =>
           /\ same
           /\ ~call.last_update_set
           /\ ~call.extracted
    /\ call.msg = "event" => grown
    /\ call.appended <=> call.msg = "event"
    /\ call.cadence_checked => call.appended
    /\ call.extracted => call.cadence_checked

\* C30: an undecodable message, one lacking a required field and one of
\* another modality leave the buffer and last_update as they were and
\* trigger no extraction, and the loop goes on; only on-modality events
\* are appended and the cadence check runs only after an append.
C30_MalformedMessagesDropped ==
    [][/\ (ks_call'.op = "message" /\ <<ks_events, ks_call>>' # <<ks_events, ks_call>>) =>
             DropsOrAppends(ks_call', ks_events' = ks_events,
                            /\ Len(ks_events') = Len(ks_events) + 1
                            /\ SubSeq(ks_events', 1, Len(ks_events)) = ks_events)
       /\ (ms_call'.op = "message" /\ <<ms_window, ms_call>>' # <<ms_window, ms_call>>) =>
             DropsOrAppends(ms_call', ms_window' = ms_window,
                            WindowSize(ms_window') = WindowSize(ms_window) + 1)]_vars

C30_Witness ==
    /\ ks_call.op = "message"
    /\ ks_call.msg = "missing_key"
    /\ ks_call.raised
    /\ Len(ks_events) >= 2

C37_LowScoreCountNeverReset ==
    [][/\ (ScoredStep
            => low_score_count' =
                 IF de_call'.target \in {RESTRICTED, LOCKDOWN}
                 THEN low_score_count + 1 ELSE 0)
       /\ (~ScoredStep => low_score_count' = low_score_count)
       /\ (/\ ScoredStep
           /\ ~de_call'.raised
           /\ low_score_count >= confirmation_count
           /\ \/ current_state = RESTRICTED /\ de_call'.target = LOCKDOWN
              \/ current_state = LOCKDOWN /\ de_call'.target = RESTRICTED
           => /\ current_state' = de_call'.target
              /\ previous_state' = current_state
              /\ de_call'.published # <<>>)]_vars

\* three scores alternating between the restricted and the lockdown range
\* have changed the state three times, the counter growing past
\* confirmation_count
C37_Witness ==
    /\ de_call.op = "process_score"
    /\ ~de_call.bypass
    /\ confirmation_count = 1
    /\ low_score_count = 3
    /\ de_call.target = RESTRICTED
    /\ current_state = RESTRICTED
    /\ previous_state = LOCKDOWN
    /\ de_call.published # <<>>

\* C35: when publishing the StateChangeEvent raises inside process_score,
\* the call ends with that exception (no Decision returned, no DECISION
\* record, nothing published or delivered) while current_state is already
\* the target and previous_state the state before; and a process_score call
\* whose target is the current state publishes no StateChangeEvent, so the
\* lost transition is never announced later.
C35_FailedPublishKeepsNewState ==
    [][/\ (ScoredStep /\ de_call'.raised
           => /\ de_call'.decision = <<>>
              /\ de_call'.audit = <<>>
              /\ de_call'.published = <<>>
              /\ le_inbox' = le_inbox
              /\ current_state' = de_call'.target
              /\ current_state' # current_state
              /\ previous_state' = current_state)
       /\ (ScoredStep /\ de_call'.target = current_state
           => /\ de_call'.published = <<>>
              /\ le_inbox' = le_inbox
              /\ current_state' = current_state)]_vars

\* a process_score call has just raised from the publication of its change
C35_Witness ==
    /\ de_call.op = "process_score"
    /\ de_call.raised
    /\ current_state = de_call.target
    /\ previous_state # current_state
    /\ le_inbox = <<>>

\* this step is a force_state call (one that changes anything)
ForceStep ==
    /\ de_call'.op = "force_state"
    /\ de_calls' = de_calls
    /\ <<de_call, current_state, previous_state>>' #
          <<de_call, current_state, previous_state>>

\* C34: a force_state call publishes no StateChangeEvent and runs no state
\* callback: nothing reaches the Locking Engine and the Locking Engine does
\* nothing; the event of the next change made by process_score carries the
\* state current at that call (the forced one) as its old_state.
C34_ForceStateIsSilent ==
    [][/\ (ForceStep
           => /\ current_state' = de_call'.target
              /\ de_call'.published = <<>>
              /\ ~de_call'.notified
              /\ le_inbox' = le_inbox
              /\ le_call' = le_call)
       /\ (ProcessStep /\ de_call'.published # <<>>
           => /\ de_call'.published[1].old_state = current_state
              /\ le_inbox' = Append(le_inbox, de_call'.published[1]))]_vars

\* the Locking Engine handles the event of the first process_score call,
\* whose old_state is a LOCKDOWN that only force_state can have set
C34_Witness ==
    /\ de_calls = 1
    /\ le_call.op = "run"
    /\ le_call.old_state = LOCKDOWN
    /\ le_call.new_state = NORMAL

\* C36: a state_change message taken from the subscription while the
\* Locking Engine is disabled is consumed with no command run and no
\* notification made; enable() itself runs nothing and brings no message
\* back; and the run() loop runs a command only for a message it takes
\* while the engine is enabled.
C36_DisabledEventsDiscarded ==
    [][/\ (le_inbox # <<>> /\ le_inbox' = Tail(le_inbox) /\ ~le_enabled
           => /\ le_call'.op = "run"
              /\ le_call'.new_state = Head(le_inbox).new_state
              /\ le_call'.lock_calls = 0
              /\ le_call'.notify_calls = <<>>
              /\ le_call'.commands = <<>>
              /\ ~le_enabled')
       /\ (~le_enabled /\ le_enabled'
           => /\ le_call'.op = "enable"
              /\ le_call'.lock_calls = 0
              /\ le_call'.notify_calls = <<>>
              /\ le_call'.commands = <<>>
              /\ le_inbox' = le_inbox)
       /\ (le_call' # le_call /\ le_call'.op \in {"run", "enable", "disable"}
             /\ le_call'.commands # <<>>
           => /\ le_call'.op = "run"
              /\ le_enabled
              /\ le_inbox # <<>>
              /\ le_inbox' = Tail(le_inbox)
              /\ le_call'.new_state = Head(le_inbox).new_state)]_vars

\* the engine was enabled again with the Decision Engine in LOCKDOWN, the
\* only event published so far consumed, and nothing was run
C36_Witness ==
    /\ le_call.op = "enable"
    /\ ~le_call.pre_enabled
    /\ le_enabled
    /\ lock_on_lockdown
    /\ de_calls = 1
    /\ current_state = LOCKDOWN
    /\ le_inbox = <<>>
    /\ le_call.commands = <<>>

C31_NoModelsStayNormal ==
    ((\A a \in Attributes : ie_attr[a] = 0) /\ ~dev_authority) =>
        /\ if_call.op = "process_features" =>
               \A i \in 1..Len(if_call.fused) :
                   /\ if_call.fused[i].fused_score = Points(50)
                   /\ ~if_call.fused[i].dev_mode
        /\ current_state = NORMAL
        /\ previous_state = NORMAL
        /\ low_score_count = 0
        /\ de_call.op = "process_score" =>
               /\ ~de_call.bypass
               /\ de_call.score = 50
               /\ de_call.target = MONITORING
               /\ de_call.published = <<>>
               /\ ~de_call.notified
               /\ ~de_call.raised
        /\ le_inbox = <<>>
        /\ le_call = NoCall

\* three fused scores have been decided on, all of them published by an
\* engine without models
C31_Witness ==
    /\ \A a \in Attributes : ie_attr[a] = 0
    /\ if_call.op = "process_features"
    /\ if_call.fused # <<>>
    /\ if_msgs >= 2
    /\ de_call.op = "process_score"
    /\ de_calls >= 3
    /\ score_history = <<50, 50, 50>>
    /\ current_state = NORMAL

\* C32: after an activation by check_key_sequence, with no magic file and
\* no environment trigger, is_active() returns True up to duration_minutes
\* after the activation, and the first call after that deadline
\* deactivates developer mode and returns False.
C32_KeySequenceExpires ==
    (/\ dv_call.op = "is_active"
     /\ ~dv_call.raised
     /\ dv_config.enabled
     /\ dv_call.pre_active
     /\ dv_call.pre_method = "Key sequence detected"
     /\ ~dv_call.magic
     /\ ~dv_call.env) =>
        IF dv_call.expired
        THEN dv_call.ret = <<FALSE>> /\ ~dv.active
        ELSE dv_call.ret = <<TRUE>> /\ dv.active

\* what C38 says of the last is_active() call that returned
LatchedCall ==
    (dv_call.op = "is_active" /\ ~dv_call.raised) =>
        /\ (~dv_call.pre_active /\ ~dv_call.magic /\ ~dv_call.env)
               => dv_call.ret = <<FALSE>>
        /\ (dv_call.magic \/ dv_call.env) => dv_call.ret = <<TRUE>>
        /\ dv_call.pre_active => dv_call.ret = <<TRUE>>
        /\ dv_call.ret = <<TRUE>> => dv.active

C39_DisabledConfigNeverActive ==
    ~dv_config.enabled =>
        /\ dv_call.op = "is_active" =>
               /\ dv_call.ret = <<FALSE>>
               /\ ~dv_call.raised
               /\ dv.active = dv_call.pre_active
        /\ ~dev_authority
        /\ ~Bypass(FALSE)
        /\ handle_state_change(NORMAL, LOCKDOWN, "ok", "ok").commands # <<>>

\* the configuration says enabled = false, a key sequence or password has
\* set the active flag, the magic file exists, and is_active() returned
\* False
C39_Witness ==
    /\ ~dv_config.enabled
    /\ dv_call.op = "is_active"
    /\ dv_call.pre_active
    /\ dv.active
    /\ dv_call.magic
    /\ dv_call.ret = <<FALSE>>

====
